---- MODULE Spec2Model ----
(***************************************************************************)
(* A model of lordov/wb_monitor: the order/stock ingestion repository      *)
(* (bot/database/repositories/wb_repo.py), the credential repository       *)
(* (bot/database/repositories/api_key.py) and the credential service with  *)
(* its subscription gate (bot/services/api_key.py).                        *)
(*                                                                         *)
(* The storage engine is PostgreSQL (wb_repo.py imports                    *)
(* sqlalchemy.dialects.postgresql.insert) reached through a SQLAlchemy     *)
(* AsyncSession that a unit of work owns.  The model keeps what the        *)
(* statements of the source do on that engine:                             *)
(*   - a session runs its statements in one transaction; its writes are    *)
(*     private until the unit of work commits;                             *)
(*   - INSERT .. ON CONFLICT waits for another open transaction that holds *)
(*     an uncommitted row with the same conflict key;                      *)
(*   - a statement that raises aborts the transaction: every later         *)
(*     statement of the session raises too, and the commit rolls back      *)
(*     (stock_stats, wb_repo.py:360-361, calls session.rollback() for      *)
(*     that reason; add_orders_bulk does not).                             *)
(***************************************************************************)
EXTENDS Integers, Sequences, FiniteSets, TLC

(***************************************************************************)
(* Bounds of the model.                                                    *)
(***************************************************************************)
\* records of one add_orders_bulk call
MaxBatch == 2
\* add_orders_bulk calls of one run
MaxCalls == 2

\* the units of work (sessions, transactions) that run concurrently
UoWs == {"t1", "t2"}

VARIABLES
    orders,      \* table OrdersWB: the committed rows
    next_id,     \* the serial OrdersWB.id
    ord_tx,      \* per unit of work: its open transaction on OrdersWB
    ord_call,    \* per unit of work: the add_orders_bulk call it runs
    ord_hist,    \* history of the run, read by the properties only
    api_keys,    \* table ApiKey: the committed rows
    key_id,      \* the serial ApiKey.id
    subs,        \* the subscription ledger, per user
    sess,        \* per unit of work: its ORM session on ApiKey
    call,        \* per unit of work: the ApiKeyService call it runs
    cred_hist,   \* history of the run, read by the properties only
    stocks,      \* table StocksWB: the committed rows
    stock_hist,  \* history of the run, read by the properties only
    sales,       \* table SalesWB: the committed rows
    sale_id,     \* the serial SalesWB.id
    sale_hist,   \* history of the run, read by the properties only
    links,       \* the delegate (employee) links: the committed rows
    tasks,       \* the task-status records: the committed rows
    cascade,     \* per unit of work: the deletions of its delete_key
    persisted,   \* table OrdersWB as the aggregations read it, by id
    agg_call,    \* the last aggregation call and what it returned
    st_rows,     \* table StocksWB as the report reads it: the committed rows
    st_sess,     \* the session of the reporting unit of work
    st_call,     \* the last stock_stats call and what it returned
    chunk_call,  \* an input of add_stocks_bulk and the statements issued
    dec,         \* stored ciphertexts and the last decrypting call
    run,         \* the scheduled run of the task handler
    user_active, \* table User: the users whose is_active is set
    revoked      \* the users whose credentials a commit took out of the runs

ord_vars == <<orders, next_id, ord_tx, ord_call, ord_hist>>
cred_vars == <<api_keys, key_id, subs, sess, call, cred_hist>>
stock_vars == <<stocks, stock_hist>>
sale_vars == <<sales, sale_id, sale_hist>>
\* the state of the parts that are modelled further below
cascade_vars == <<links, tasks, cascade>>
agg_vars == <<persisted, agg_call>>
report_vars == <<st_rows, st_sess, st_call>>
chunk_vars == <<chunk_call>>
read_vars == <<agg_vars, report_vars, chunk_vars>>
dec_vars == <<dec>>
task_vars == <<run, user_active, revoked>>
more_vars == <<sale_vars, cascade_vars, read_vars, dec_vars, task_vars>>
vars == <<ord_vars, cred_vars, stock_vars, more_vars>>

(***************************************************************************)
(* Orders: OrderWBCreate inputs and OrdersWB rows.                         *)
(***************************************************************************)
\* Two records that share the dedup key and differ in total_price, and the
\* cancellation of the same order (another key: is_cancel is part of it).
OrderInputs ==
    [date: {1}, user_id: {1}, srid: {"s1"}, nm_id: {10},
     is_cancel: {FALSE}, tech_size: {"0"},
     total_price: {100, 200}, discount_percent: {10}]
    \cup
    [date: {1}, user_id: {1}, srid: {"s1"}, nm_id: {10},
     is_cancel: {TRUE}, tech_size: {"0"},
     total_price: {100}, discount_percent: {10}]

\* index_elements of the ON CONFLICT clause
DedupKey(r) ==
    <<r.date, r.user_id, r.srid, r.nm_id, r.is_cancel, r.tech_size>>

OrderKeys == {DedupKey(r) : r \in OrderInputs}

\* order.model_dump() stored as a row with the serial id
OrderRow(r, id) ==
    [id |-> id, date |-> r.date, user_id |-> r.user_id, srid |-> r.srid,
     nm_id |-> r.nm_id, is_cancel |-> r.is_cancel, tech_size |-> r.tech_size,
     total_price |-> r.total_price, discount_percent |-> r.discount_percent]

\* the input fields of a row
OrderFields(x) ==
    [date |-> x.date, user_id |-> x.user_id, srid |-> x.srid,
     nm_id |-> x.nm_id, is_cancel |-> x.is_cancel, tech_size |-> x.tech_size,
     total_price |-> x.total_price, discount_percent |-> x.discount_percent]

\* A plausible bug: ON CONFLICT DO UPDATE in place of DO NOTHING.
insert_order_do_update(table, r, id) ==
    IF \E x \in table : DedupKey(x) = DedupKey(r)
    THEN LET old == CHOOSE x \in table : DedupKey(x) = DedupKey(r)
         IN  [table |-> (table \ {old}) \cup {OrderRow(r, old.id)},
              returning |-> <<OrderRow(r, old.id)>>]
    ELSE [table |-> table \cup {OrderRow(r, id)},
          returning |-> <<OrderRow(r, id)>>]

\* A plausible bug: a plain INSERT on a table without the unique index.
insert_order_no_dedup(table, r, id) ==
    [table |-> table \cup {OrderRow(r, id)}, returning |-> <<OrderRow(r, id)>>]

\* insert(OrdersWB).values(data).on_conflict_do_nothing(..).returning(OrdersWB)
\* on the rows `table` the transaction sees: the new table and the rows
\* RETURNING gives (none on a conflict).
insert_order(table, r, id) ==
    IF \E x \in table : DedupKey(x) = DedupKey(r)
    THEN [table |-> table, returning |-> <<>>]
    ELSE [table |-> table \cup {OrderRow(r, id)},
          returning |-> <<OrderRow(r, id)>>]

\* The rows unit of work t sees: the committed rows, with its own writes.
OrdersVisible(t) ==
    {x \in orders : \A y \in ord_tx[t].rows : y.id # x.id} \cup ord_tx[t].rows

\* Another open transaction holds an uncommitted row with r's key: the
\* INSERT .. ON CONFLICT of t waits until that transaction ends.
OrderInsertWaits(t, r) ==
    \E o \in UoWs \ {t} :
        /\ ord_tx[o].open
        /\ \E y \in ord_tx[o].rows : DedupKey(y) = DedupKey(r)

NoOrder == [srid |-> "none"]

OrdTxClosed == [open |-> FALSE, failed |-> FALSE, rows |-> {}]
OrdNoCall == [pc |-> "none", batch |-> <<>>, out |-> <<>>, new_orders |-> <<>>]

InitOrders ==
    /\ orders = {}
    /\ next_id = 1
    /\ ord_tx = [t \in UoWs |-> OrdTxClosed]
    /\ ord_call = [t \in UoWs |-> OrdNoCall]
    /\ ord_hist = [calls |-> 0,
                   returned |-> [k \in OrderKeys |-> 0],
                   first |-> [k \in OrderKeys |-> NoOrder],
                   by |-> [k \in OrderKeys |-> {}],
                   errors |-> 0]

\* add_orders_bulk is called in unit of work t (which opens its transaction
\* with the first statement).
add_orders_bulk_begin(t) ==
    /\ ord_call[t].pc \in {"none", "returned"}
    /\ ord_hist.calls < MaxCalls
    /\ ord_call' = [ord_call EXCEPT ![t] =
           [pc |-> "loop", batch |-> <<>>, out |-> <<>>, new_orders |-> <<>>]]
    /\ ord_tx' = [ord_tx EXCEPT ![t].open = TRUE]
    /\ ord_hist' = [ord_hist EXCEPT !.calls = @ + 1]
    /\ UNCHANGED <<orders, next_id>>

\* One turn of the loop of add_orders_bulk for the next record r of the
\* batch; `raises` says that the storage engine rejects this statement.
add_orders_bulk_execute(t, r, raises) ==
    /\ ord_call[t].pc = "loop"
    /\ Len(ord_call[t].batch) < MaxBatch
    /\ LET k == DedupKey(r)
           res == insert_order(OrdersVisible(t), r, next_id)
           seen == \E x \in OrdersVisible(t) : DedupKey(x) = k
           log(o) == [ord_call EXCEPT ![t].batch = Append(@, r),
                                      ![t].out = Append(@, o)]
           done == log(IF seen THEN "dup" ELSE "new")
           hist == [ord_hist EXCEPT !.by[k] = @ \cup {t}]
       IN
       IF ord_tx[t].failed
       THEN \* the transaction is aborted: execute raises, except logs it
            /\ ord_call' = log(IF seen THEN "dup" ELSE "aborted")
            /\ ord_hist' = hist
            /\ UNCHANGED <<orders, next_id, ord_tx>>
       ELSE IF raises
       THEN \* execute raises SQLAlchemyError; except logs it and goes on
            /\ ord_call' = log("error")
            /\ ord_tx' = [ord_tx EXCEPT ![t].failed = TRUE]
            /\ ord_hist' = [ord_hist EXCEPT !.errors = 1]
            /\ UNCHANGED <<orders, next_id>>
       ELSE /\ ~OrderInsertWaits(t, r)
            /\ ord_tx' = [ord_tx EXCEPT ![t].rows = res.table \ orders]
            /\ IF res.returning = <<>>
               THEN \* scalar_one_or_none() is None
                    /\ ord_call' = done
                    /\ ord_hist' = hist
                    /\ UNCHANGED next_id
               ELSE \* new_orders.append(inserted_order)
                    /\ ord_call' = [done EXCEPT ![t].new_orders =
                                        @ \o res.returning]
                    /\ next_id' = next_id + 1
                    /\ ord_hist' = [hist EXCEPT !.first[k] =
                           IF @ = NoOrder THEN r ELSE @]
            /\ UNCHANGED orders

\* The batch is exhausted (at once when it is empty): the call returns
\* new_orders, each of which the caller notifies.
add_orders_bulk_return(t) ==
    /\ ord_call[t].pc = "loop"
    /\ ord_call' = [ord_call EXCEPT ![t].pc = "returned"]
    /\ ord_hist' = [ord_hist EXCEPT !.returned =
           [k \in OrderKeys |->
               IF \E i \in 1..Len(ord_call[t].new_orders) :
                      DedupKey(ord_call[t].new_orders[i]) = k
               THEN @[k] + 1 ELSE @[k]]]
    /\ UNCHANGED <<orders, next_id, ord_tx>>

\* The unit of work ends: COMMIT, which the engine answers with a rollback
\* when the transaction is aborted.
orders_uow_exit(t) ==
    /\ ord_tx[t].open
    /\ ord_call[t].pc \in {"none", "returned"}
    /\ IF ord_tx[t].failed
       THEN /\ UNCHANGED orders
            /\ ord_hist' = [ord_hist EXCEPT !.first =
                   [k \in OrderKeys |->
                       IF \E y \in ord_tx[t].rows : DedupKey(y) = k
                       THEN NoOrder ELSE @[k]]]
       ELSE /\ orders' = OrdersVisible(t)
            /\ UNCHANGED ord_hist
    /\ ord_tx' = [ord_tx EXCEPT ![t] = OrdTxClosed]
    /\ ord_call' = [ord_call EXCEPT ![t] = OrdNoCall]
    /\ UNCHANGED next_id

NextOrders ==
    /\ \E t \in UoWs :
           \/ add_orders_bulk_begin(t)
           \/ \E r \in OrderInputs, raises \in BOOLEAN :
                  add_orders_bulk_execute(t, r, raises)
           \/ add_orders_bulk_return(t)
           \/ orders_uow_exit(t)
    /\ UNCHANGED <<cred_vars, stock_vars, more_vars>>

(***************************************************************************)
(* Properties of add_orders_bulk.                                          *)
(* ord_call[t].out[i] records what happened to record i of the batch:      *)
(*   "new"      its key was not visible to the transaction,                *)
(*   "dup"      its key was already visible (persisted),                   *)
(*   "error"    the storage engine rejected its statement,                 *)
(*   "aborted"  its key was not visible and execute raised because an      *)
(*              earlier statement had aborted the transaction.             *)
(***************************************************************************)
OrdersQuiescent == \A t \in UoWs : ~ord_tx[t].open

UniqueDedupKey(table) ==
    \A x, y \in table : DedupKey(x) = DedupKey(y) => x = y

\* C1: for any sequence of add_orders_bulk calls at most one order row is
\* persisted per dedup key (in the table and in what every unit of work
\* sees), and a record whose key is already persisted when it is ingested
\* (by an earlier call, or earlier in the same batch) is not in the returned
\* list: the list holds one row per record found new, and no key twice.
C1_DedupIdempotent ==
    /\ UniqueDedupKey(orders)
    /\ \A t \in UoWs :
        LET c == ord_call[t] IN
        /\ UniqueDedupKey(OrdersVisible(t))
        /\ \A i, j \in 1..Len(c.new_orders) :
               DedupKey(c.new_orders[i]) = DedupKey(c.new_orders[j]) => i = j
        /\ Len(c.new_orders) <=
               Cardinality({i \in 1..Len(c.batch) : c.out[i] = "new"})
        /\ \A i \in 1..Len(c.batch) :
               (/\ c.out[i] = "dup"
                /\ \A j \in 1..(i - 1) : DedupKey(c.batch[j]) # DedupKey(c.batch[i]))
               => \A j \in 1..Len(c.new_orders) :
                      DedupKey(c.new_orders[j]) # DedupKey(c.batch[i])

\* C1's case: a call has returned whose batch began with a record whose key
\* (with another total_price) an earlier call had committed, followed by a
\* record with a new key: only the second is in the returned list.
C1_Witness ==
    \E t \in UoWs :
        LET c == ord_call[t] IN
        /\ c.pc = "returned"
        /\ c.out = <<"dup", "new">>
        /\ Len(c.new_orders) = 1
        /\ \E x \in orders : /\ DedupKey(x) = DedupKey(c.batch[1])
                              /\ OrderFields(x) # c.batch[1]

\* C2: under any interleaving of add_orders_bulk calls of different units of
\* work that ingest records with the same dedup key, the key is in the
\* returned list of at most one call, and once every unit of work has ended
\* it is in the returned list of exactly one call and has exactly one
\* persisted row.
C2_ExactlyOnce ==
    \A k \in OrderKeys :
        (Cardinality(ord_hist.by[k]) >= 2) =>
            (/\ ord_hist.returned[k] <= 1
             /\ (OrdersQuiescent =>
                    (/\ ord_hist.returned[k] = 1
                     /\ Cardinality({x \in orders : DedupKey(x) = k}) = 1)))

\* C2 restricted to the runs in which no statement raised.
C2_ExactlyOnceWithoutStorageError ==
    ord_hist.errors = 0 => C2_ExactlyOnce

\* C3: orders are first-writer-wins: the row persisted under a dedup key
\* (committed, or visible to a unit of work) holds the fields of the first
\* record written under that key; a later record with the same key and
\* other non-key fields leaves it unchanged.  (A write that its transaction
\* rolled back is no write.)
C3_FirstWriterWins ==
    \A t \in UoWs :
        \A x \in orders \cup OrdersVisible(t) :
            ord_hist.first[DedupKey(x)] = OrderFields(x)

\* C3's case: a returned call ingested a record whose key was persisted with
\* another total_price.
C3_Witness ==
    \E t \in UoWs :
        LET c == ord_call[t] IN
        /\ c.pc = "returned"
        /\ \E i \in 1..Len(c.batch) :
               /\ c.out[i] = "dup"
               /\ \E x \in OrdersVisible(t) :
                      /\ DedupKey(x) = DedupKey(c.batch[i])
                      /\ x.total_price # c.batch[i].total_price

\* C4: when the insert of one record of a batch fails with a storage error
\* the batch is not aborted: every other record whose key was not yet
\* persisted is inserted and is in the returned list.
C4_FailureDoesNotAbortBatch ==
    \A t \in UoWs :
        LET c == ord_call[t] IN
        c.pc = "returned" =>
            \A i \in 1..Len(c.batch) :
                (/\ c.out[i] \in {"new", "aborted"}
                 /\ \A j \in 1..Len(c.batch) :
                        c.out[j] = "error" => c.batch[j] # c.batch[i])
                => \E j \in 1..Len(c.new_orders) :
                        /\ OrderFields(c.new_orders[j]) = c.batch[i]
                        /\ c.new_orders[j] \in OrdersVisible(t)


(***************************************************************************)
(* Credentials: table ApiKey behind WbApiKeyRepository, and ApiKeyService  *)
(* with the subscription gate.                                             *)
(*                                                                         *)
(* The repository works on ORM objects of the session of its unit of       *)
(* work.  A session keeps the objects it loaded (the identity map: a later *)
(* SELECT does not refresh them), a SELECT first flushes the session       *)
(* (autoflush), a flush INSERTs the added objects and UPDATEs, per loaded  *)
(* object, only the columns whose value differs from the one the session   *)
(* holds, and the commit at the end of the unit of work makes the writes   *)
(* visible to the others.                                                  *)
(***************************************************************************)
\* ApiKeyService calls of one run
MaxCredCalls == 3

Users == {"u1"}
NoUser == "no user"
\* telegram ids: the users', and one of nobody
TelegramIds == Users \cup {"nobody"}
Titles == {"API Key", "spare"}
\* the title of the callers that keep one credential per user
OneTitle == {"API Key"}
RawKeys == {"k1"}
CredKeys == Users \X Titles

\* self.users.get_by_tg_id(telegram_id): the user, or None
get_by_tg_id(tg) == IF tg \in Users THEN tg ELSE NoUser

\* self.fernet.encrypt(raw_key.encode()).decode(): a token carries a fresh
\* part (IV, timestamp), here the number of the call that makes it
fernet_encrypt(raw, iv) == [iv |-> iv, plain |-> raw]

\* The subscription ledger of SubscriptionService.
has_active_subscription(ledger, u) == ledger[u].active
check_trial(ledger, u) == ~ledger[u].trial_used
create_subscription(ledger, u, plan) ==
    [ledger EXCEPT ![u] = [active |-> TRUE,
                           trial_used |-> @.trial_used \/ plan = "trial"]]

\* A plausible bug: the WHERE clause of get_by_title (with is_active).
select_key_active_only(view, u, title) ==
    {x \in view : x.user_id = u /\ x.title = title /\ x.is_active}

\* select(ApiKey).where(ApiKey.user_id == user_id, ApiKey.title == title)
select_key(view, u, title) ==
    {x \in view : x.user_id = u /\ x.title = title}

SessClosed ==
    [open |-> FALSE, failed |-> FALSE, alone |-> TRUE, new |-> {},
     loaded |-> {}, wr_enc |-> {}, wr_act |-> {}, ups |-> {},
     deleted |-> {}]

\* What a SELECT of session ss returns on the committed rows `table`: the
\* rows that the session did not delete, with the session's own column
\* writes, and the rows it added.
DbView(ss, table) ==
    {[x EXCEPT
        !.key_encrypted = IF \E w \in ss.wr_enc : w.id = x.id
                          THEN (CHOOSE w \in ss.wr_enc : w.id = x.id).val
                          ELSE @,
        !.is_active = IF \E w \in ss.wr_act : w.id = x.id
                      THEN (CHOOSE w \in ss.wr_act : w.id = x.id).val
                      ELSE @] : x \in {y \in table : y.id \notin ss.deleted}}
    \cup ss.new

\* existing.key_encrypted = encrypted_key; existing.is_active = is_active
\* on the object x that the SELECT found: an added object takes the values;
\* of a loaded one, the columns that differ from the held values are
\* written at the next flush.
upsert_existing(ss, x, enc, act) ==
    IF \E n \in ss.new : n.id = x.id
    THEN [ss EXCEPT !.new = {n \in @ : n.id # x.id} \cup
                            {[x EXCEPT !.key_encrypted = enc,
                                       !.is_active = act]}]
    ELSE LET held == IF \E l \in ss.loaded : l.id = x.id
                     THEN CHOOSE l \in ss.loaded : l.id = x.id
                     ELSE [id |-> x.id, key_encrypted |-> x.key_encrypted,
                           is_active |-> x.is_active]
         IN  [ss EXCEPT
                 !.loaded = {l \in @ : l.id # x.id} \cup
                            {[id |-> x.id, key_encrypted |-> enc,
                              is_active |-> act]},
                 !.wr_enc = IF enc # held.key_encrypted
                            THEN {w \in @ : w.id # x.id} \cup
                                 {[id |-> x.id, val |-> enc]}
                            ELSE @,
                 !.wr_act = IF act # held.is_active
                            THEN {w \in @ : w.id # x.id} \cup
                                 {[id |-> x.id, val |-> act]}
                            ELSE @]

\* WbApiKeyRepository.upsert_key in session ss: the session after the call,
\* whether the call raised, and whether it added a row (with serial `id`).
upsert_key(ss, table, id, u, title, enc, act) ==
    LET found == select_key(DbView(ss, table), u, title)
        noted == [ss EXCEPT !.open = TRUE,
                     !.ups = {p \in @ : p.user_id # u \/ p.title # title} \cup
                             {[user_id |-> u, title |-> title,
                               key_encrypted |-> enc, is_active |-> act]}]
    IN  IF ss.failed \/ Cardinality(found) > 1
        THEN \* execute / scalar_one_or_none raises; `raise e`
             [sess |-> [ss EXCEPT !.open = TRUE, !.failed = TRUE],
              raised |-> TRUE, added |-> FALSE]
        ELSE IF found = {}
        THEN [sess |-> [noted EXCEPT !.new = @ \cup
                           {[id |-> id, user_id |-> u, title |-> title,
                             key_encrypted |-> enc, is_active |-> act]}],
              raised |-> FALSE, added |-> TRUE]
        ELSE [sess |-> upsert_existing(noted, CHOOSE x \in found : TRUE,
                                       enc, act),
              raised |-> FALSE, added |-> FALSE]

\* The unique constraint of ApiKey on (user_id, title): a flushed INSERT of
\* a row whose key is committed, or is the key of another row of the same
\* flush, raises IntegrityError.  (First, a plausible bug: the table has no
\* such constraint.)
unique_violation_unchecked(table, new) == FALSE

unique_violation(table, new) ==
    \E n \in new : \E x \in table \cup (new \ {n}) :
        x.user_id = n.user_id /\ x.title = n.title

\* The rows of a credential key in a view (for the history and the
\* properties).
RowsOfKey(view, u, title) ==
    {x \in view : <<x.user_id, x.title>> = <<u, title>>}

NoCall ==
    [op |-> "none", pc |-> "none", user |-> NoUser, title |-> "", raw |-> "",
     no |-> 0, enc |-> fernet_encrypt("", 0), before |-> {},
     is_active |-> FALSE, status |-> "", seen_active |-> FALSE,
     at_start |-> [active |-> FALSE, trial_used |-> FALSE],
     at_end |-> [active |-> FALSE, trial_used |-> FALSE],
     stable |-> TRUE, after_trial |-> FALSE, result |-> {}, ret |-> FALSE]

InitCred ==
    /\ api_keys = {}
    /\ key_id = 1
    /\ subs = [u \in Users |-> [active |-> FALSE, trial_used |-> FALSE]]
    /\ sess = [s \in UoWs |-> SessClosed]
    /\ call = [s \in UoWs |-> NoCall]
    /\ cred_hist = [calls |-> 0,
                    last |-> [k \in CredKeys |-> {}],
                    trial_returned |-> {}]

CallIdle(s) == call[s].pc \in {"none", "done", "raised"}

\* The ledger of user u changes: the gate calls of the other units of work
\* that are under way for u no longer run on the ledger they began with.
Unsettle(c, actor, u) ==
    [s \in UoWs |->
        IF s # actor /\ c[s].op = "gate" /\ c[s].user = u /\ ~CallIdle(s)
        THEN [c[s] EXCEPT !.stable = FALSE] ELSE c[s]]

\* ApiKeyService.set_key(user_id, title, raw_key, is_active), called as it
\* is (the upsert of a credential).
set_key(s, u, title, raw, act) ==
    /\ CallIdle(s)
    /\ cred_hist.calls < MaxCredCalls
    /\ LET no == cred_hist.calls + 1
           enc == fernet_encrypt(raw, no)
           res == upsert_key(sess[s], api_keys, key_id, u, title, enc, act)
       IN  /\ sess' = [sess EXCEPT ![s] = res.sess]
           /\ key_id' = IF res.added THEN key_id + 1 ELSE key_id
           /\ call' = [call EXCEPT ![s] =
                  [NoCall EXCEPT !.op = "set_key",
                       !.pc = IF res.raised THEN "raised" ELSE "done",
                       !.user = u, !.title = title, !.raw = raw,
                       !.no = no, !.enc = enc, !.is_active = act,
                       !.before = RowsOfKey(DbView(sess[s], api_keys),
                                            u, title)]]
    /\ cred_hist' = [cred_hist EXCEPT !.calls = @ + 1]
    /\ UNCHANGED <<api_keys, subs>>

\* set_api_key_with_subscription_check is called: the user is looked up, and
\* ValueError is raised when there is none.
gate_begin(s, tg, title, raw) ==
    /\ CallIdle(s)
    /\ cred_hist.calls < MaxCredCalls
    /\ LET u == get_by_tg_id(tg) IN
       call' = [call EXCEPT ![s] =
           IF u = NoUser
           THEN [NoCall EXCEPT !.op = "gate", !.pc = "raised"]
           ELSE [NoCall EXCEPT !.op = "gate", !.pc = "has_active",
                     !.no = cred_hist.calls + 1,
                     !.user = u, !.title = title, !.raw = raw,
                     !.at_start = subs[u],
                     !.after_trial = u \in cred_hist.trial_returned]]
    /\ sess' = [sess EXCEPT ![s].open = TRUE]
    /\ cred_hist' = [cred_hist EXCEPT !.calls = @ + 1]
    /\ UNCHANGED <<api_keys, key_id, subs>>

\* A plausible bug: the result of has_active_subscription is ignored.
after_has_active_ignored(c, active) ==
    [c EXCEPT !.pc = "check_trial", !.seen_active = active]

\* if await subscription_service.has_active_subscription(user.id): ..
after_has_active(c, active) ==
    IF active
    THEN [c EXCEPT !.pc = "set_key", !.seen_active = TRUE,
                   !.is_active = TRUE, !.status = "active"]
    ELSE [c EXCEPT !.pc = "check_trial", !.seen_active = FALSE]

gate_has_active(s) ==
    /\ call[s].op = "gate" /\ call[s].pc = "has_active"
    /\ call' = [call EXCEPT ![s] =
           after_has_active(@, has_active_subscription(subs, @.user))]
    /\ UNCHANGED <<api_keys, key_id, subs, sess, cred_hist>>

\* if await subscription_service.check_trial(user.id): ..  else the key is
\* saved inactive
after_check_trial(c, eligible) ==
    IF eligible
    THEN [c EXCEPT !.pc = "create_subscription"]
    ELSE [c EXCEPT !.pc = "set_key", !.is_active = FALSE,
                   !.status = "inactive"]

gate_check_trial(s) ==
    /\ call[s].op = "gate" /\ call[s].pc = "check_trial"
    /\ call' = [call EXCEPT ![s] =
           after_check_trial(@, check_trial(subs, @.user))]
    /\ UNCHANGED <<api_keys, key_id, subs, sess, cred_hist>>

\* A plausible bug: the trial branch forgets to create the subscription.
trial_branch_no_subscription(ledger, u) == ledger

\* await subscription_service.create_subscription(user.id, plan="trial")
trial_branch(ledger, u) == create_subscription(ledger, u, "trial")

gate_create_subscription(s) ==
    /\ call[s].op = "gate" /\ call[s].pc = "create_subscription"
    /\ subs' = trial_branch(subs, call[s].user)
    /\ call' = [Unsettle(call, s, call[s].user) EXCEPT ![s] =
           [@ EXCEPT !.pc = "set_key", !.is_active = TRUE,
                     !.status = "trial_activated"]]
    /\ UNCHANGED <<api_keys, key_id, sess, cred_hist>>

\* await self.set_key(user.id, title, raw_key, is_active=..); return status
gate_set_key(s) ==
    /\ call[s].op = "gate" /\ call[s].pc = "set_key"
    /\ LET c == call[s]
           enc == fernet_encrypt(c.raw, c.no)
           res == upsert_key(sess[s], api_keys, key_id, c.user, c.title,
                             enc, c.is_active)
       IN  /\ sess' = [sess EXCEPT ![s] = res.sess]
           /\ key_id' = IF res.added THEN key_id + 1 ELSE key_id
           /\ call' = [call EXCEPT ![s] =
                  [@ EXCEPT !.pc = IF res.raised THEN "raised" ELSE "done",
                            !.enc = enc,
                            !.before = RowsOfKey(DbView(sess[s], api_keys),
                                                 c.user, c.title),
                            !.at_end = subs[c.user]]]
           /\ cred_hist' =
                  IF ~res.raised /\ c.status = "trial_activated"
                  THEN [cred_hist EXCEPT !.trial_returned = @ \cup {c.user}]
                  ELSE cred_hist
    /\ UNCHANGED <<api_keys, subs>>

\* The flushed UPDATE of an object whose row another unit of work deleted
\* matches no row: StaleDataError.
stale_update(table, ss) ==
    \/ \E w \in ss.wr_enc :
           w.id \notin ss.deleted /\ \A x \in table : x.id # w.id
    \/ \E w \in ss.wr_act :
           w.id \notin ss.deleted /\ \A x \in table : x.id # w.id

\* The unit of work ends: the session is flushed and committed, or rolled
\* back when a statement failed or the flush fails (unique constraint, row
\* gone).
commit_ok(s) ==
    /\ ~sess[s].failed
    /\ ~unique_violation({x \in api_keys : x.id \notin sess[s].deleted},
                         sess[s].new)
    /\ ~stale_update(api_keys, sess[s])

cred_uow_exit(s) ==
    /\ sess[s].open
    /\ CallIdle(s)
    /\ LET ok == commit_ok(s)
           after == DbView(sess[s], api_keys)
       IN  /\ api_keys' = IF ok THEN after ELSE api_keys
           /\ cred_hist' =
                  IF ok
                  THEN [cred_hist EXCEPT !.last =
                           [k \in CredKeys |->
                               LET mine == {p \in sess[s].ups :
                                               <<p.user_id, p.title>> = k}
                               IN  IF mine = {} THEN @[k] ELSE mine]]
                  ELSE cred_hist
           /\ sess' = [o \in UoWs |->
                  IF o = s THEN SessClosed
                  ELSE IF ok /\ after # api_keys /\ sess[o].open
                  THEN [sess[o] EXCEPT !.alone = FALSE]
                  ELSE sess[o]]
    /\ call' = [call EXCEPT ![s] = NoCall]
    /\ UNCHANGED <<key_id, subs>>

\* The ledger outside the gate: the user buys a plan.
subscribe(u) ==
    /\ ~subs[u].active
    /\ subs' = create_subscription(subs, u, "paid")
    /\ call' = Unsettle(call, "env", u)
    /\ UNCHANGED <<api_keys, key_id, sess, cred_hist>>

\* The ledger outside the gate: the subscription of the user runs out.
expire(u) ==
    /\ subs[u].active
    /\ subs' = [subs EXCEPT ![u].active = FALSE]
    /\ call' = Unsettle(call, "env", u)
    /\ UNCHANGED <<api_keys, key_id, sess, cred_hist>>

\* The steps of the callers that save credentials through the gate, under
\* the given titles.
GateSteps(titles) ==
    \/ \E s \in UoWs :
           \/ \E tg \in TelegramIds, title \in titles, raw \in RawKeys :
                  gate_begin(s, tg, title, raw)
           \/ gate_has_active(s)
           \/ gate_check_trial(s)
           \/ gate_create_subscription(s)
           \/ gate_set_key(s)
           \/ cred_uow_exit(s)
    \/ \E u \in Users : subscribe(u) \/ expire(u)

\* Every credential is saved through the gate, under several titles.
NextGate == GateSteps(Titles) /\ UNCHANGED <<ord_vars, stock_vars, more_vars>>

\* One credential per user, saved through the gate or by set_key as it is.
NextCred ==
    /\ \/ GateSteps(OneTitle)
       \/ \E s \in UoWs, u \in Users, title \in OneTitle, raw \in RawKeys,
             act \in BOOLEAN :
              set_key(s, u, title, raw, act)
    /\ UNCHANGED <<ord_vars, stock_vars, more_vars>>

(***************************************************************************)
(* Properties of the credentials.                                          *)
(***************************************************************************)
\* A call of unit of work s has returned, and it ran undisturbed: no other
\* party changed the ledger of its user while it ran, and no other unit of
\* work committed credentials since the session of s began.
ReturnedAlone(s, op) ==
    /\ call[s].op = op
    /\ call[s].pc = "done"
    /\ call[s].stable
    /\ sess[s].alone

\* The decision the gate has to take on the ledger it began with.
ExpectedStatus(ledger) ==
    IF ledger.active THEN "active"
    ELSE IF ~ledger.trial_used THEN "trial_activated"
    ELSE "inactive"

\* C5: the gate decides in order, first match wins: with an active
\* subscription the result is ACTIVE and the credential is saved active
\* whatever the trial eligibility; otherwise a trial-eligible user gets a
\* trial subscription and TRIAL_ACTIVATED, the credential saved active;
\* otherwise the result is INACTIVE and the credential is saved inactive.
C5_GateDecisionInOrder ==
    \A s \in UoWs :
        ReturnedAlone(s, "gate") =>
            LET c == call[s]
                expected == ExpectedStatus(c.at_start)
                saved == RowsOfKey(DbView(sess[s], api_keys), c.user, c.title)
            IN  /\ c.status = expected
                /\ saved # {}
                /\ \A x \in saved :
                       /\ x.key_encrypted = c.enc
                       /\ x.is_active = (expected # "inactive")
                /\ expected = "trial_activated" =>
                       c.at_end.active /\ c.at_end.trial_used
                /\ expected # "trial_activated" => c.at_end = c.at_start

\* Two calls have returned side by side, one that granted the trial and one
\* that found the trial used and no subscription.
C5_Witness ==
    \E s1, s2 \in UoWs :
        /\ ReturnedAlone(s1, "gate") /\ ReturnedAlone(s2, "gate")
        /\ call[s1].status = "trial_activated"
        /\ call[s2].status = "inactive"
        /\ call[s2].at_start.trial_used
        /\ \E x \in DbView(sess[s2], api_keys) :
               x.key_encrypted = call[s2].enc /\ ~x.is_active

\* C6: after a call returned TRIAL_ACTIVATED for a user, every later call
\* for that user that finds no active subscription returns INACTIVE (and
\* saves the credential inactive): sequential calls grant no second trial.
C6_NoSecondTrial ==
    \A s \in UoWs :
        LET c == call[s] IN
        (c.op = "gate" /\ c.pc = "done" /\ c.after_trial /\ ~c.seen_active)
            => c.status = "inactive" /\ ~c.is_active

C6_Witness ==
    \E s \in UoWs :
        LET c == call[s] IN
        /\ c.op = "gate" /\ c.pc = "done" /\ c.after_trial /\ ~c.seen_active
        /\ c.user \in cred_hist.trial_returned
        /\ c.status = "inactive"

\* C7: right after a gate call returns, no credential of its user, under
\* any title, is active unless the user has an active subscription or that
\* call granted the trial.
C7_NoActiveCredentialWithoutSubscription ==
    \A s \in UoWs :
        ReturnedAlone(s, "gate") =>
            LET c == call[s] IN
            \A x \in DbView(sess[s], api_keys) :
                (x.user_id = c.user /\ x.is_active) =>
                    c.at_end.active \/ c.status = "trial_activated"

UniqueCredKey(table) ==
    \A x, y \in table :
        (x.user_id = y.user_id /\ x.title = y.title) => x = y

\* C8: whatever the interleaving of upsert_key calls on one (user_id, title)
\* from different units of work, the key has exactly one row, and the row
\* holds the ciphertext and the active flag of the last committed call.
C8_LastCommittedCallWins ==
    \A k \in CredKeys :
        cred_hist.last[k] # {} =>
            LET rows == RowsOfKey(api_keys, k[1], k[2]) IN
            /\ Cardinality(rows) = 1
            /\ \A x \in rows : \E p \in cred_hist.last[k] :
                   /\ x.key_encrypted = p.key_encrypted
                   /\ x.is_active = p.is_active

\* The part of C8 that holds: the committed table never has two rows of one
\* key.
C8_NoDuplicateRows == UniqueCredKey(api_keys)

\* C9: two sequential upserts of one (user_id, title) leave exactly one row
\* of the key, with the ciphertext and the active flag of the second call,
\* also when the first call saved the credential inactive.
C9_SecondUpsertOnly ==
    \A s \in UoWs :
        (ReturnedAlone(s, "set_key") /\ call[s].before # {}) =>
            LET c == call[s]
                rows == RowsOfKey(DbView(sess[s], api_keys), c.user, c.title)
            IN  /\ Cardinality(rows) = 1
                /\ \A x \in rows :
                       x.key_encrypted = c.enc /\ x.is_active = c.is_active

\* The second call saves active a credential that the first saved inactive,
\* with another ciphertext.
C9_Witness ==
    \E s \in UoWs :
        /\ ReturnedAlone(s, "set_key")
        /\ call[s].is_active
        /\ \E b \in call[s].before :
               ~b.is_active /\ b.key_encrypted # call[s].enc
        /\ Cardinality(RowsOfKey(DbView(sess[s], api_keys),
                                 call[s].user, call[s].title)) = 1

(***************************************************************************)
(* Stock: table StocksWB behind WBRepository.add_stocks_bulk.              *)
(*                                                                         *)
(* Each chunk is one INSERT .. VALUES (..), (..) ON CONFLICT (user_id,     *)
(* warehouse_name, nm_id) DO UPDATE.  PostgreSQL rejects such a statement  *)
(* when two of its rows have the same conflict key ("ON CONFLICT DO UPDATE *)
(* command cannot affect row a second time"); the exception leaves         *)
(* add_stocks_bulk, and the unit of work rolls back.                       *)
(***************************************************************************)
\* records of one add_stocks_bulk call
MaxStockBatch == 2
\* add_stocks_bulk calls of one run
MaxStockCalls == 3

CHUNK_SIZE == 500

StockInputs ==
    [user_id : {1}, warehouse_name : {"A", "B"}, nm_id : {10},
     quantity : {5, 8}, last_change_date : {1, 2}]

StockKey(r) == <<r.user_id, r.warehouse_name, r.nm_id>>
StockKeys == {StockKey(r) : r \in StockInputs}
NoStock == [warehouse_name |-> "none"]

StockBatches ==
    UNION {[1..n -> StockInputs] : n \in 0..MaxStockBatch}

\* chunked_list(stocks, CHUNK_SIZE): the list cut into pieces of n items
RECURSIVE chunked_list(_, _)
chunked_list(list, n) ==
    IF list = <<>> THEN <<>>
    ELSE IF Len(list) <= n THEN <<list>>
    ELSE <<SubSeq(list, 1, n)>> \o chunked_list(SubSeq(list, n + 1, Len(list)), n)

\* A plausible bug: ON CONFLICT DO NOTHING in the place of DO UPDATE.
upsert_stock_do_nothing(table, r) ==
    IF \E x \in table : StockKey(x) = StockKey(r) THEN table
    ELSE table \cup {r}

\* One row of the VALUES list: inserted, or on conflict quantity and
\* last_change_date of the row are set to the excluded ones.
upsert_stock(table, r) ==
    {x \in table : StockKey(x) # StockKey(r)} \cup {r}

\* two rows of the VALUES list share the conflict key
has_duplicate_key(chunk) ==
    Cardinality({StockKey(chunk[i]) : i \in 1..Len(chunk)}) < Len(chunk)

RECURSIVE upsert_rows(_, _)
upsert_rows(table, chunk) ==
    IF chunk = <<>> THEN table
    ELSE upsert_rows(upsert_stock(table, Head(chunk)), Tail(chunk))

\* session.execute(stmt) of one chunk: the table after it, or the statement
\* is rejected
execute_upsert(table, chunk) ==
    IF has_duplicate_key(chunk)
    THEN [table |-> table, raised |-> TRUE]
    ELSE [table |-> upsert_rows(table, chunk), raised |-> FALSE]

\* for chunk in chunked_list(stocks, CHUNK_SIZE): .. execute(stmt)
RECURSIVE execute_chunks(_, _)
execute_chunks(table, chunks) ==
    IF chunks = <<>> THEN [table |-> table, raised |-> FALSE]
    ELSE LET res == execute_upsert(table, Head(chunks)) IN
         IF res.raised THEN res
         ELSE execute_chunks(res.table, Tail(chunks))

\* The most recently ingested record of each key after a batch.
RECURSIVE LatestAfter(_, _)
LatestAfter(latest, batch) ==
    IF batch = <<>> THEN latest
    ELSE LatestAfter([latest EXCEPT ![StockKey(Head(batch))] = Head(batch)],
                     Tail(batch))

InitStocks ==
    /\ stocks = {}
    /\ stock_hist = [calls |-> 0, raised |-> FALSE,
                     latest |-> [k \in StockKeys |-> NoStock]]

\* WBRepository.add_stocks_bulk(batch) in a unit of work of its own, which
\* commits at its end, or rolls back when the call raised.
add_stocks_bulk(batch) ==
    /\ stock_hist.calls < MaxStockCalls
    /\ LET res == IF batch = <<>>
                  THEN [table |-> stocks, raised |-> FALSE]
                  ELSE execute_chunks(stocks, chunked_list(batch, CHUNK_SIZE))
       IN  /\ stocks' = IF res.raised THEN stocks ELSE res.table
           /\ stock_hist' = [calls |-> stock_hist.calls + 1,
                             raised |-> stock_hist.raised \/ res.raised,
                             latest |-> LatestAfter(stock_hist.latest, batch)]
    /\ UNCHANGED <<ord_vars, cred_vars, more_vars>>

NextStocks == \E batch \in StockBatches : add_stocks_bulk(batch)

\* C10: after any sequence of add_stocks_bulk calls every key that occurred
\* in an input has exactly one row, and the row has the quantity and the
\* last_change_date of the most recently ingested record of the key, also
\* when two records of one call have the same key.
C10_StockLastWriterWins ==
    \A k \in StockKeys :
        stock_hist.latest[k] # NoStock =>
            /\ Cardinality({x \in stocks : StockKey(x) = k}) = 1
            /\ \A x \in stocks :
                   StockKey(x) = k =>
                       /\ x.quantity = stock_hist.latest[k].quantity
                       /\ x.last_change_date =
                              stock_hist.latest[k].last_change_date

\* The part of C10 that holds: as long as no call had two records of one
\* key (no call raised), the last writer wins.
C10_LastWriterWinsAcrossCalls ==
    ~stock_hist.raised => C10_StockLastWriterWins

(***************************************************************************)
(* Sales: table SalesWB behind WBRepository.add_sales_bulk.                *)
(*                                                                         *)
(* The whole batch is one INSERT .. VALUES (..), (..) ON CONFLICT (date,   *)
(* user_id, srid, nm_id, isCancel, tech_size) DO NOTHING: a row whose key  *)
(* is in the table, or was inserted by an earlier row of the statement, is *)
(* skipped.  Nothing is returned.                                          *)
(***************************************************************************)
\* records of one add_sales_bulk call
MaxSaleBatch == 2
\* add_sales_bulk calls of one run
MaxSaleCalls == 3

\* Two sales, each in two versions that share the dedup key and differ in
\* total_price.
SaleInputs ==
    [date: {1}, user_id: {1}, srid: {"s1", "s2"}, nm_id: {10},
     isCancel: {FALSE}, tech_size: {"0"}, total_price: {100, 200}]

\* index_elements of the ON CONFLICT clause
SaleKey(r) ==
    <<r.date, r.user_id, r.srid, r.nm_id, r.isCancel, r.tech_size>>

SaleKeys == {SaleKey(r) : r \in SaleInputs}
NoSale == [srid |-> "none"]

SaleBatches == UNION {[1..n -> SaleInputs] : n \in 0..MaxSaleBatch}

\* order.model_dump() stored as a row with the serial id
SaleRow(r, id) ==
    [id |-> id, date |-> r.date, user_id |-> r.user_id, srid |-> r.srid,
     nm_id |-> r.nm_id, isCancel |-> r.isCancel, tech_size |-> r.tech_size,
     total_price |-> r.total_price]

SaleFields(x) ==
    [date |-> x.date, user_id |-> x.user_id, srid |-> x.srid,
     nm_id |-> x.nm_id, isCancel |-> x.isCancel, tech_size |-> x.tech_size,
     total_price |-> x.total_price]

\* A plausible bug: ON CONFLICT DO UPDATE in the place of DO NOTHING.
insert_sale_do_update(table, r, id) ==
    IF \E x \in table : SaleKey(x) = SaleKey(r)
    THEN {IF SaleKey(x) = SaleKey(r) THEN SaleRow(r, x.id) ELSE x :
              x \in table}
    ELSE table \cup {SaleRow(r, id)}

\* One row of the VALUES list under ON CONFLICT DO NOTHING.
insert_sale(table, r, id) ==
    IF \E x \in table : SaleKey(x) = SaleKey(r)
    THEN table
    ELSE table \cup {SaleRow(r, id)}

\* session.execute(stmt): the rows of the VALUES list in their order; every
\* row of the list draws a value of the serial id.
RECURSIVE insert_sales(_, _, _)
insert_sales(table, data, id) ==
    IF data = <<>> THEN table
    ELSE insert_sales(insert_sale(table, Head(data), id), Tail(data), id + 1)

\* The first record written under each key, after the batch is written on
\* a table that holds the keys of `first`.
RECURSIVE FirstAfter(_, _)
FirstAfter(first, batch) ==
    IF batch = <<>> THEN first
    ELSE LET k == SaleKey(Head(batch)) IN
         FirstAfter(IF first[k] = NoSale
                    THEN [first EXCEPT ![k] = Head(batch)] ELSE first,
                    Tail(batch))

InitSales ==
    /\ sales = {}
    /\ sale_id = 1
    /\ sale_hist = [calls |-> 0, batch |-> <<>>, before |-> {},
                    first |-> [k \in SaleKeys |-> NoSale]]

\* WBRepository.add_sales_bulk(batch) in a unit of work of its own, which
\* commits at its end.
add_sales_bulk(batch) ==
    /\ sale_hist.calls < MaxSaleCalls
    /\ IF batch = <<>>
       THEN UNCHANGED <<sales, sale_id>>
       ELSE /\ sales' = insert_sales(sales, batch, sale_id)
            /\ sale_id' = sale_id + Len(batch)
    /\ sale_hist' = [calls |-> sale_hist.calls + 1,
                     batch |-> batch, before |-> sales,
                     first |-> FirstAfter(sale_hist.first, batch)]
    /\ UNCHANGED <<ord_vars, cred_vars, stock_vars, cascade_vars, read_vars,
                   dec_vars, task_vars>>

NextSales == \E batch \in SaleBatches : add_sales_bulk(batch)

\* C11: add_sales_bulk dedups as add_orders_bulk does: after any sequence
\* of calls there is at most one row per key (date, user_id, srid, nm_id,
\* isCancel, tech_size), every key that was ingested has its row with the
\* fields of the first record written under it, so that a batch with keys
\* that are persisted already still persists its records with new keys.
C11_SalesDedup ==
    /\ \A x, y \in sales : SaleKey(x) = SaleKey(y) => x = y
    /\ \A k \in SaleKeys :
           sale_hist.first[k] # NoSale =>
               \E x \in sales : SaleFields(x) = sale_hist.first[k]
    /\ \A x \in sales : SaleFields(x) = sale_hist.first[SaleKey(x)]

\* The last call had a record of a persisted key with another price, and a
\* record of a new key: the old row is as it was, the new one is stored.
C11_Witness ==
    \E i, j \in 1..Len(sale_hist.batch) :
        /\ \E x \in sale_hist.before :
               /\ SaleKey(x) = SaleKey(sale_hist.batch[i])
               /\ SaleFields(x) # sale_hist.batch[i]
               /\ x \in sales
        /\ i < j
        /\ \A x \in sale_hist.before :
               SaleKey(x) # SaleKey(sale_hist.batch[j])
        /\ \E x \in sales : SaleFields(x) = sale_hist.batch[j]

(***************************************************************************)
(* Credentials: the reads and the deactivation of WbApiKeyRepository.      *)
(***************************************************************************)
\* The owners of credentials: the users of the gate, and one more whose
\* credentials are saved by set_key as it is.
KeyOwners == Users \cup {"u2"}

\* The object of row x as session ss holds it: a row that the session
\* loaded before keeps the attribute values the session has.
Held(ss, x) ==
    IF \E l \in ss.loaded : l.id = x.id
    THEN LET l == CHOOSE l \in ss.loaded : l.id = x.id
         IN  [x EXCEPT !.key_encrypted = l.key_encrypted,
                       !.is_active = l.is_active]
    ELSE x

\* The session after a SELECT returned `rows`: the rows become objects of
\* the session.
Load(ss, rows) ==
    [ss EXCEPT !.open = TRUE,
        !.loaded = @ \cup
            {[id |-> x.id, key_encrypted |-> x.key_encrypted,
              is_active |-> x.is_active] :
                 x \in {y \in rows :
                           /\ \A n \in ss.new : n.id # y.id
                           /\ \A l \in ss.loaded : l.id # y.id}}]

\* A plausible bug: the WHERE clause without the user.
select_active_any_user(view, u) == {x \in view : x.is_active}

\* select(ApiKey).where(ApiKey.user_id == user_id, ApiKey.is_active)
select_active(view, u) == {x \in view : x.user_id = u /\ x.is_active}

\* result.scalar_one_or_none(): the row, none, or MultipleResultsFound
scalar_one_or_none(rows) ==
    IF Cardinality(rows) > 1 THEN [raised |-> TRUE, row |-> {}]
    ELSE [raised |-> FALSE, row |-> rows]

\* WbApiKeyRepository.get_active_by_user(user_id) in the session of s
get_active_by_user(s, u) ==
    /\ CallIdle(s)
    /\ cred_hist.calls < MaxCredCalls
    /\ LET view == DbView(sess[s], api_keys)
           rows == select_active(view, u)
           res == IF sess[s].failed THEN [raised |-> TRUE, row |-> {}]
                  ELSE scalar_one_or_none(rows)
           ss == Load(sess[s], rows)
       IN  /\ sess' = [sess EXCEPT ![s] =
                  IF res.raised THEN [ss EXCEPT !.failed = sess[s].failed]
                  ELSE ss]
           /\ call' = [call EXCEPT ![s] =
                  [NoCall EXCEPT !.op = "get_active_by_user",
                       !.pc = IF res.raised THEN "raised" ELSE "done",
                       !.user = u, !.before = view,
                       !.result = {Held(ss, x) : x \in res.row}]]
    /\ cred_hist' = [cred_hist EXCEPT !.calls = @ + 1]
    /\ UNCHANGED <<api_keys, key_id, subs>>

\* key.is_active = False on the object of row x
set_is_active(ss, x, act) ==
    IF \E n \in ss.new : n.id = x.id
    THEN [ss EXCEPT !.new = {n \in @ : n.id # x.id} \cup
                            {[x EXCEPT !.is_active = act]}]
    ELSE LET held == Held(ss, x) IN
         [ss EXCEPT
             !.loaded = {l \in @ : l.id # x.id} \cup
                        {[id |-> x.id, key_encrypted |-> held.key_encrypted,
                          is_active |-> act]},
             !.wr_act = IF act # held.is_active
                        THEN {w \in @ : w.id # x.id} \cup
                             {[id |-> x.id, val |-> act]}
                        ELSE @]

\* for key in keys: key.is_active = False
RECURSIVE deactivate_all(_, _)
deactivate_all(ss, keys) ==
    IF keys = {} THEN ss
    ELSE LET x == CHOOSE x \in keys : TRUE
         IN  deactivate_all(set_is_active(ss, x, FALSE), keys \ {x})

\* WbApiKeyRepository.deactivate_key_by_user_id(user_id) in the session of s
deactivate_key_by_user_id(s, u) ==
    /\ CallIdle(s)
    /\ cred_hist.calls < MaxCredCalls
    /\ LET view == DbView(sess[s], api_keys)
           keys == select_active(view, u)
       IN  IF sess[s].failed
           THEN /\ sess' = sess
                /\ call' = [call EXCEPT ![s] =
                       [NoCall EXCEPT !.op = "deactivate", !.pc = "raised",
                                      !.user = u, !.before = view]]
           ELSE /\ sess' = [sess EXCEPT ![s] =
                       deactivate_all([@ EXCEPT !.open = TRUE], keys)]
                /\ call' = [call EXCEPT ![s] =
                       [NoCall EXCEPT !.op = "deactivate", !.pc = "done",
                                      !.user = u, !.before = view,
                                      !.ret = (keys # {})]]
    /\ cred_hist' = [cred_hist EXCEPT !.calls = @ + 1]
    /\ UNCHANGED <<api_keys, key_id, subs>>

\* Credentials of several owners under several titles are saved, read and
\* deactivated.
NextKeys ==
    /\ \E s \in UoWs :
           \/ \E u \in KeyOwners, title \in Titles, raw \in RawKeys,
                 act \in BOOLEAN :
                  set_key(s, u, title, raw, act)
           \/ \E u \in KeyOwners : get_active_by_user(s, u)
           \/ \E u \in KeyOwners : deactivate_key_by_user_id(s, u)
           \/ cred_uow_exit(s)
    /\ UNCHANGED <<ord_vars, stock_vars, more_vars>>

\* C12: in every state that credential operations reach, also with active
\* credentials of a user under two titles, get_active_by_user returns one
\* active credential of the user when there is one, none when there is
\* none, and does not fail.
C12_GetActiveReturnsOne ==
    \A s \in UoWs :
        LET c == call[s] IN
        (/\ c.op = "get_active_by_user"
         /\ c.pc \in {"done", "raised"}
         /\ ~sess[s].failed
         /\ sess[s].alone) =>
            /\ c.pc = "done"
            /\ Cardinality(c.result) <= 1
            /\ c.result \subseteq {x \in c.before :
                                      x.user_id = c.user /\ x.is_active}
            /\ c.result = {} <=>
                   ~\E x \in c.before : x.user_id = c.user /\ x.is_active

\* The part of C12 that holds: with at most one active credential of the
\* user, the call returns it, or none.
C12_GetActiveWithOneActiveKey ==
    \A s \in UoWs :
        LET c == call[s] IN
        (/\ c.op = "get_active_by_user"
         /\ c.pc \in {"done", "raised"}
         /\ ~sess[s].failed
         /\ sess[s].alone
         /\ Cardinality({x \in c.before :
                            x.user_id = c.user /\ x.is_active}) <= 1) =>
            /\ c.pc = "done"
            /\ c.result = {x \in c.before :
                              x.user_id = c.user /\ x.is_active}

\* A row without its active flag.
WithoutFlag(x) ==
    [id |-> x.id, user_id |-> x.user_id, title |-> x.title,
     key_encrypted |-> x.key_encrypted]

\* C13: deactivate_key_by_user_id leaves no credential of the user active,
\* returns true exactly when a credential of the user was active before,
\* and changes no ciphertext and no credential of another user.
C13_DeactivateAllForUser ==
    \A s \in UoWs :
        ReturnedAlone(s, "deactivate") =>
            LET c == call[s]
                view == DbView(sess[s], api_keys)
            IN  /\ \A x \in view : x.user_id = c.user => ~x.is_active
                /\ c.ret = (\E x \in c.before :
                               x.user_id = c.user /\ x.is_active)
                /\ {WithoutFlag(x) : x \in view} =
                       {WithoutFlag(x) : x \in c.before}
                /\ {x \in view : x.user_id # c.user} =
                       {x \in c.before : x.user_id # c.user}

\* The call deactivated an active credential of its user, and another user
\* had an active credential then.
C13_Witness ==
    \E s \in UoWs :
        /\ ReturnedAlone(s, "deactivate")
        /\ call[s].ret
        /\ \E x \in call[s].before :
               x.user_id # call[s].user /\ x.is_active
        /\ \E x \in call[s].before :
               x.user_id = call[s].user /\ x.is_active

(***************************************************************************)
(* The cascade of ApiKeyService.delete_key: the credentials of the user,   *)
(* then the delegate (employee) links, then the task-status records, as    *)
(* three DELETE statements of the session of the unit of work.             *)
(***************************************************************************)
\* The awaited calls of delete_key, in their order.
delete_key_order_links_first ==
    <<"delete_all_employees", "delete_user_keys", "delete_all_tasks">>

delete_key_order ==
    <<"delete_user_keys", "delete_all_employees", "delete_all_tasks">>

CascadeIdle == [del_links |-> {}, del_tasks |-> {}, log |-> <<>>]

InitCascade ==
    /\ links = {}
    /\ tasks = {}
    /\ cascade = [s \in UoWs |-> CascadeIdle]

\* The credentials of user u that a session sees.
KeysOfUser(ss, table, u) == {x \in DbView(ss, table) : x.user_id = u}

\* The entry of the log of a delete_key for one of its deletions: the step,
\* and whether the session sees a credential of the user after it.
Deleted(step, ss, table, u) ==
    [step |-> step, keys_left |-> KeysOfUser(ss, table, u) # {}]

\* The delegate links and the task-status records that session s sees.
LinksView(s) == links \ cascade[s].del_links
TasksView(s) == tasks \ cascade[s].del_tasks

\* A delegate link of the user is stored (by the employee handlers).
add_employee(u) ==
    /\ [user_id |-> u] \notin links
    /\ links' = links \cup {[user_id |-> u]}
    /\ UNCHANGED <<cred_vars, tasks, cascade>>

\* A task-status record of the user is stored (by the task handlers).
add_task(u) ==
    /\ [user_id |-> u] \notin tasks
    /\ tasks' = tasks \cup {[user_id |-> u]}
    /\ UNCHANGED <<cred_vars, links, cascade>>

\* delete_key is called: the user is looked up, and ValueError is raised
\* when there is none.
delete_key_begin(s, tg) ==
    /\ CallIdle(s)
    /\ cred_hist.calls < MaxCredCalls
    /\ LET u == get_by_tg_id(tg) IN
       call' = [call EXCEPT ![s] =
           IF u = NoUser
           THEN [NoCall EXCEPT !.op = "delete_key", !.pc = "raised"]
           ELSE [NoCall EXCEPT !.op = "delete_key",
                               !.pc = delete_key_order[1], !.user = u]]
    /\ sess' = [sess EXCEPT ![s].open = TRUE]
    /\ cascade' = [cascade EXCEPT ![s].log = <<>>]
    /\ cred_hist' = [cred_hist EXCEPT !.calls = @ + 1]
    /\ UNCHANGED <<api_keys, key_id, subs, links, tasks>>

\* The call after one of its awaited calls: the next one, the return, or
\* the exception of a statement that failed (which leaves delete_key).
AfterDeleteStep(c, log, raises) ==
    IF raises THEN [c EXCEPT !.pc = "raised"]
    ELSE IF Len(log) < Len(delete_key_order)
    THEN [c EXCEPT !.pc = delete_key_order[Len(log) + 1]]
    ELSE [c EXCEPT !.pc = "done"]

\* WbApiKeyRepository.delete_user_keys(user.id):
\* delete(ApiKey).where(ApiKey.user_id == user_id)
delete_user_keys(s, raises) ==
    /\ call[s].op = "delete_key" /\ call[s].pc = "delete_user_keys"
    /\ LET u == call[s].user
           fails == raises \/ sess[s].failed
           after == [sess[s] EXCEPT
                        !.new = {n \in @ : n.user_id # u},
                        !.deleted = @ \cup
                            {x.id : x \in {y \in api_keys : y.user_id = u}}]
           log == Append(cascade[s].log,
                         Deleted("delete_user_keys", after, api_keys, u))
       IN  /\ sess' = [sess EXCEPT ![s] =
                  IF fails THEN [@ EXCEPT !.failed = TRUE] ELSE after]
           /\ cascade' = [cascade EXCEPT ![s].log =
                             IF fails THEN @ ELSE log]
           /\ call' = [call EXCEPT ![s] = AfterDeleteStep(@, log, fails)]
    /\ UNCHANGED <<api_keys, key_id, subs, cred_hist, links, tasks>>

\* self.employee.delete_all_employees(user.id)
delete_all_employees(s, raises) ==
    /\ call[s].op = "delete_key" /\ call[s].pc = "delete_all_employees"
    /\ LET u == call[s].user
           fails == raises \/ sess[s].failed
           log == Append(cascade[s].log,
                         Deleted("delete_all_employees", sess[s], api_keys, u))
       IN  /\ sess' = [sess EXCEPT ![s].failed = fails]
           /\ cascade' = [cascade EXCEPT ![s] =
                  IF fails THEN @
                  ELSE [@ EXCEPT !.log = log,
                           !.del_links = @ \cup
                               {x \in links : x.user_id = u}]]
           /\ call' = [call EXCEPT ![s] = AfterDeleteStep(@, log, fails)]
    /\ UNCHANGED <<api_keys, key_id, subs, cred_hist, links, tasks>>

\* self.task_status.delete_all_tasks(user.id)
delete_all_tasks(s, raises) ==
    /\ call[s].op = "delete_key" /\ call[s].pc = "delete_all_tasks"
    /\ LET u == call[s].user
           fails == raises \/ sess[s].failed
           log == Append(cascade[s].log,
                         Deleted("delete_all_tasks", sess[s], api_keys, u))
       IN  /\ sess' = [sess EXCEPT ![s].failed = fails]
           /\ cascade' = [cascade EXCEPT ![s] =
                  IF fails THEN @
                  ELSE [@ EXCEPT !.log = log,
                           !.del_tasks = @ \cup
                               {x \in tasks : x.user_id = u}]]
           /\ call' = [call EXCEPT ![s] = AfterDeleteStep(@, log, fails)]
    /\ UNCHANGED <<api_keys, key_id, subs, cred_hist, links, tasks>>

\* The unit of work of a delete_key ends: the three deletions are committed
\* together, or rolled back together.
cascade_uow_exit(s) ==
    /\ cred_uow_exit(s)
    /\ links' = IF commit_ok(s) THEN LinksView(s) ELSE links
    /\ tasks' = IF commit_ok(s) THEN TasksView(s) ELSE tasks
    /\ cascade' = [cascade EXCEPT ![s] = CascadeIdle]

NextDelete ==
    /\ \/ \E s \in UoWs :
              \/ \E u \in Users, title \in Titles, raw \in RawKeys,
                    act \in BOOLEAN :
                     set_key(s, u, title, raw, act) /\ UNCHANGED cascade_vars
              \/ \E tg \in TelegramIds : delete_key_begin(s, tg)
              \/ \E raises \in BOOLEAN : delete_user_keys(s, raises)
              \/ \E raises \in BOOLEAN : delete_all_employees(s, raises)
              \/ \E raises \in BOOLEAN : delete_all_tasks(s, raises)
              \/ cascade_uow_exit(s)
       \/ \E u \in Users : add_employee(u) \/ add_task(u)
    /\ UNCHANGED <<ord_vars, stock_vars, sale_vars, read_vars, dec_vars,
                   task_vars>>

\* C14: delete_key deletes credentials, then delegate links, then
\* task-status records, in one operation: while it runs and after it, the
\* delegate links and the task-status records of the user are never deleted
\* while a credential of the user still exists (the three deletions are
\* committed together at the end of the unit of work).
C14_CascadeOrder ==
    \A s \in UoWs :
        (call[s].op = "delete_key" /\ call[s].user # NoUser
            /\ sess[s].alone) =>
            LET log == cascade[s].log IN
            /\ \A i \in 1..Len(log) :
                   log[i].step = <<"delete_user_keys", "delete_all_employees",
                                   "delete_all_tasks">>[i]
            /\ \A i \in 1..Len(log) : ~log[i].keys_left
            /\ call[s].pc = "done" =>
                   /\ Len(log) = 3
                   /\ KeysOfUser(sess[s], api_keys, call[s].user) = {}

\* The operation has deleted the credentials and the delegate link of a user
\* who had both, and is about to delete the task-status record.
C14_Witness ==
    \E s \in UoWs :
        /\ call[s].op = "delete_key" /\ call[s].pc = "delete_all_tasks"
        /\ sess[s].alone
        /\ \E x \in api_keys : x.user_id = call[s].user
        /\ \E x \in cascade[s].del_links : x.user_id = call[s].user
        /\ \E x \in TasksView(s) : x.user_id = call[s].user
        /\ KeysOfUser(sess[s], api_keys, call[s].user) = {}

(***************************************************************************)
(* Aggregation: WBRepository.counter_and_amount and get_totals_combined,   *)
(* two reads of table OrdersWB.                                            *)
(*                                                                         *)
(* Money is counted in hundredths of the currency unit, so that            *)
(* total_price * (1 - discount_percent / 100) is the integer               *)
(* total_price * (100 - discount_percent).  A point of time is a day and a *)
(* tick of the day; cast(.., Date) keeps the day.                          *)
(***************************************************************************)
\* the ids of the persisted orders
MaxOrderId == 3

\* The orders that may be persisted: orders of user 1 and item 10 placed
\* today (day 2) at tick 0 and not cancelled, and the orders that differ in
\* one of these attributes.  5 and 15 at 10 percent make 4.50 and 13.50.
AggOrders ==
    LET base == [user_id |-> 1, nm_id |-> 10, date |-> [day |-> 2, tick |-> 0],
                 is_cancel |-> FALSE, total_price |-> 5,
                 discount_percent |-> 10]
        kinds == {base,
                  [base EXCEPT !.user_id = 2],
                  [base EXCEPT !.nm_id = 20],
                  [base EXCEPT !.date = [day |-> 1, tick |-> 0]],
                  [base EXCEPT !.date = [day |-> 2, tick |-> 1]],
                  [base EXCEPT !.is_cancel = TRUE]}
    IN  kinds \cup {[k EXCEPT !.total_price = 15] : k \in kinds}

NoRow == [user_id |-> 0]

\* The tables of persisted orders: per id, an order or none.
AggTables == [1..MaxOrderId -> AggOrders \cup {NoRow}]

\* The rows of a table, with their ids.
RowsOf(table) ==
    {[id |-> i, row |-> table[i]] : i \in {j \in DOMAIN table : table[j] # NoRow}}

\* a <= b on points of time
TimeLeq(a, b) == a.day < b.day \/ (a.day = b.day /\ a.tick <= b.tick)

\* total_price * (1 - discount_percent / 100), in hundredths
Discounted(r) == r.total_price * (100 - r.discount_percent)

\* func.count() and func.sum(..) over the selected rows: the sum of no rows
\* is NULL (here: <<>>)
RECURSIVE SumDiscounted(_)
SumDiscounted(rows) ==
    IF rows = {} THEN 0
    ELSE LET x == CHOOSE x \in rows : TRUE
         IN  Discounted(x.row) + SumDiscounted(rows \ {x})

Aggregate(rows) ==
    [count |-> Cardinality(rows),
     sum |-> IF rows = {} THEN <<>> ELSE <<SumDiscounted(rows)>>]

\* `x or 0` on a count or a sum
OrZero(v) == IF v = <<>> THEN 0 ELSE v[1]

\* round(x) of Python on an amount in hundredths: to the nearest integer,
\* a half to the even one
round(x) ==
    LET q == x \div 100
        r == x % 100
    IN  IF r > 50 \/ (r = 50 /\ q % 2 = 1) THEN q + 1 ELSE q

\* A plausible bug: the filter on is_cancel is left out.
counter_where_with_cancelled(table, user_id, order_id, date) ==
    {x \in RowsOf(table) :
        /\ x.row.user_id = user_id
        /\ x.row.date.day = date
        /\ x.id < order_id}

\* .where(user_id == user_id, cast(date, Date) == date, id < order_id,
\*        is_cancel.is_(False))
counter_where(table, user_id, order_id, date) ==
    {x \in RowsOf(table) :
        /\ x.row.user_id = user_id
        /\ x.row.date.day = date
        /\ x.id < order_id
        /\ x.row.is_cancel = FALSE}

\* What counter_and_amount returns: a pair, or after SQLAlchemyError the
\* number 1.
counter_and_amount_result(table, user_id, order_id, date, raises) ==
    IF raises
    THEN [shape |-> "int", items |-> <<1>>]
    ELSE LET res == Aggregate(counter_where(table, user_id, order_id, date))
             total_amount == IF res.sum # <<>> /\ res.sum[1] # 0
                             THEN round(res.sum[1]) ELSE 0
         IN  [shape |-> "tuple", items |-> <<res.count + 1, total_amount>>]

NoAggCall ==
    [op |-> "none", user_id |-> 0, order_id |-> 0, nm_id |-> 0,
     date |-> [day |-> 0, tick |-> 0], provisional |-> 0, raised |-> FALSE,
     result |-> [shape |-> "none", items |-> <<>>]]

IdleAgg ==
    /\ persisted = [i \in 1..MaxOrderId |-> NoRow]
    /\ agg_call = NoAggCall

InitAgg ==
    /\ persisted \in AggTables
    /\ agg_call = NoAggCall

\* WBRepository.counter_and_amount(user_id, order_id, date)
counter_and_amount(user_id, order_id, date, raises) ==
    /\ agg_call' = [NoAggCall EXCEPT
           !.op = "counter_and_amount", !.user_id = user_id,
           !.order_id = order_id, !.date = [day |-> date, tick |-> 0],
           !.raised = raises,
           !.result = counter_and_amount_result(persisted, user_id, order_id,
                                                date, raises)]
    /\ UNCHANGED persisted

\* the provisional totals a caller passes, in hundredths
Provisionals == {0, 450, 1000}

\* f"{count} <na> {amount}", <na> the Russian word for "for", written "na"
Render(count, amount) == [count |-> count, sep |-> "na", amount |-> amount]

\* today_subquery: .where(user_id, nm_id, is_cancel == False,
\*                        date >= start_of_day, date <= date)
today_where(table, user_id, nm_id, date) ==
    LET start_of_day == [day |-> date.day, tick |-> 0] IN
    {x \in RowsOf(table) :
        /\ x.row.user_id = user_id
        /\ x.row.nm_id = nm_id
        /\ x.row.is_cancel = FALSE
        /\ TimeLeq(start_of_day, x.row.date)
        /\ TimeLeq(x.row.date, date)}

\* yesterday_subquery: .where(user_id, nm_id, is_cancel == False,
\*                            id < order_id, cast(date, Date) == yesterday)
yesterday_where(table, user_id, order_id, nm_id, date) ==
    LET yesterday == date.day - 1 IN
    {x \in RowsOf(table) :
        /\ x.row.user_id = user_id
        /\ x.row.nm_id = nm_id
        /\ x.row.is_cancel = FALSE
        /\ x.id < order_id
        /\ x.row.date.day = yesterday}

\* A plausible bug: the provisional total is dropped when orders of today
\* are persisted.
final_today_total_persisted_only(today_orders, today_total, total_price_today) ==
    IF today_orders = 0 \/ today_total = 0
    THEN total_price_today
    ELSE today_total

\* if today_orders == 0 or today_total == 0: .. else: ..
final_today_total(today_orders, today_total, total_price_today) ==
    IF today_orders = 0 \/ today_total = 0
    THEN total_price_today
    ELSE today_total + total_price_today

\* What get_totals_combined returns: two rendered summaries, or 0, 0 after
\* ValueError (the provisional total is 0) and after any other exception.
get_totals_combined_result(table, user_id, order_id, nm_id, date, total_price_today, raises) ==
    IF total_price_today = 0 \/ raises
    THEN [shape |-> "ints", items |-> <<0, 0>>]
    ELSE LET today == Aggregate(today_where(table, user_id, nm_id, date))
             yesterday == Aggregate(yesterday_where(table, user_id, order_id,
                                                    nm_id, date))
             today_orders == today.count
             today_total == OrZero(today.sum)
         IN  [shape |-> "strings",
              items |-> <<Render(today_orders,
                                 round(final_today_total(today_orders,
                                           today_total, total_price_today))),
                          Render(yesterday.count,
                                 round(OrZero(yesterday.sum)))>>]

\* WBRepository.get_totals_combined(user_id, order_id, nm_id, date,
\*                                  total_price_today)
get_totals_combined(user_id, order_id, nm_id, date, total_price_today, raises) ==
    /\ agg_call' = [NoAggCall EXCEPT
           !.op = "get_totals_combined", !.user_id = user_id,
           !.order_id = order_id, !.nm_id = nm_id, !.date = date,
           !.provisional = total_price_today,
           !.raised = raises /\ total_price_today # 0,
           !.result = get_totals_combined_result(persisted, user_id, order_id,
                          nm_id, date, total_price_today, raises)]
    /\ UNCHANGED persisted

NextAgg ==
    /\ \/ \E order_id \in 1..(MaxOrderId + 1), raises \in BOOLEAN :
            counter_and_amount(1, order_id, 2, raises)
       \/ \E order_id \in 1..(MaxOrderId + 1), tick \in {0, 1},
             total_price_today \in Provisionals, raises \in BOOLEAN :
            get_totals_combined(1, order_id, 10, [day |-> 2, tick |-> tick],
                                total_price_today, raises)
    /\ UNCHANGED <<ord_vars, cred_vars, stock_vars, sale_vars, cascade_vars,
                   report_vars, chunk_vars, dec_vars,
                   task_vars>>

\* amount is an integer nearest to the amount x of hundredths
Nearest(amount, x) == 100 * amount - x \in -50..50

\* C15: a call of counter_and_amount(user_id, order_id, date) that read the
\* table returns the pair of 1 + the number of the user's orders of that
\* date that are not cancelled and have id < order_id, and of the sum of
\* their total_price * (1 - discount_percent / 100) rounded to a nearest
\* integer, 0 without such orders; no other order contributes.
C15_CounterAndAmount ==
    (agg_call.op = "counter_and_amount" /\ ~agg_call.raised) =>
        LET prior == {i \in 1..MaxOrderId :
                        /\ persisted[i] # NoRow
                        /\ i < agg_call.order_id
                        /\ persisted[i].user_id = agg_call.user_id
                        /\ persisted[i].date.day = agg_call.date.day
                        /\ ~persisted[i].is_cancel}
            total == SumDiscounted({[id |-> i, row |-> persisted[i]] : i \in prior})
        IN  /\ agg_call.result.shape = "tuple"
            /\ Len(agg_call.result.items) = 2
            /\ agg_call.result.items[1] = 1 + Cardinality(prior)
            /\ Nearest(agg_call.result.items[2], total)
            /\ prior = {} => agg_call.result.items[2] = 0

\* The day counter example: orders 1 and 2 of the day count, order 3 of the
\* same day is cancelled, the call for order 3 returns count 3.
C15_Witness ==
    /\ agg_call.op = "counter_and_amount" /\ ~agg_call.raised
    /\ agg_call.order_id = 3
    /\ persisted[3] # NoRow /\ persisted[3].is_cancel
    /\ persisted[3].user_id = 1 /\ persisted[3].date.day = 2
    /\ agg_call.result.shape = "tuple"
    /\ agg_call.result.items[1] = 3

\* C16: a call of counter_and_amount whose query fails with a storage
\* error returns the pair (1, 0).
C16_SoftFailPair ==
    (agg_call.op = "counter_and_amount" /\ agg_call.raised) =>
        /\ agg_call.result.shape = "tuple"
        /\ agg_call.result.items = <<1, 0>>

\* After a storage error the call does return, a count of 1.
C16_SoftFailReturnsOne ==
    (agg_call.op = "counter_and_amount" /\ agg_call.raised) =>
        agg_call.result.items[1] = 1

\* C17: a call of get_totals_combined with a provisional total other than 0
\* that read the table renders today as "<count> na <amount>", count the
\* number of persisted orders of the item today and amount a nearest integer
\* of the provisional total alone when the persisted total is zero or empty,
\* of persisted plus provisional total otherwise.
C17_TodayMerge ==
    (agg_call.op = "get_totals_combined" /\ agg_call.provisional # 0
        /\ ~agg_call.raised) =>
        LET today == {i \in 1..MaxOrderId :
                        /\ persisted[i] # NoRow
                        /\ persisted[i].user_id = agg_call.user_id
                        /\ persisted[i].nm_id = agg_call.nm_id
                        /\ ~persisted[i].is_cancel
                        /\ persisted[i].date.day = agg_call.date.day
                        /\ persisted[i].date.tick <= agg_call.date.tick}
            total == SumDiscounted({[id |-> i, row |-> persisted[i]] : i \in today})
            expected == IF total = 0 THEN agg_call.provisional
                        ELSE total + agg_call.provisional
        IN  /\ agg_call.result.shape = "strings"
            /\ agg_call.result.items[1].count = Cardinality(today)
            /\ agg_call.result.items[1].sep = "na"
            /\ Nearest(agg_call.result.items[1].amount, expected)

\* Two orders of the item are persisted today and the provisional total is
\* added to their total.
C17_Witness ==
    /\ agg_call.op = "get_totals_combined" /\ ~agg_call.raised
    /\ agg_call.provisional = 450
    /\ agg_call.result.shape = "strings"
    /\ agg_call.result.items[1].count = 2
    /\ agg_call.result.items[1].amount = 22

\* Without persisted orders of the item today the provisional total stands
\* alone.
C17_WitnessProvisionalAlone ==
    /\ agg_call.op = "get_totals_combined" /\ ~agg_call.raised
    /\ agg_call.provisional = 1000
    /\ agg_call.result.shape = "strings"
    /\ agg_call.result.items[1] = Render(0, 10)

\* The order a get_totals_combined call is made for is persisted and read
\* by the call: an order of the user and item in the today window, not
\* cancelled, whose discounted total is the provisional total.
JustIngestedVisible ==
    /\ agg_call.order_id \in 1..MaxOrderId
    /\ persisted[agg_call.order_id] # NoRow
    /\ LET r == persisted[agg_call.order_id] IN
       /\ r.user_id = agg_call.user_id /\ r.nm_id = agg_call.nm_id
       /\ ~r.is_cancel
       /\ r.date.day = agg_call.date.day
       /\ r.date.tick <= agg_call.date.tick
       /\ Discounted(r) = agg_call.provisional

\* C28: the today amount of get_totals_combined counts the just-ingested
\* order once: when the order is already persisted and in the today window
\* of the read, the amount is the rounded sum of the discounted totals of
\* the non-cancelled orders of the item today, without the provisional
\* total on top.
C28_JustIngestedCountedOnce ==
    (/\ agg_call.op = "get_totals_combined" /\ agg_call.provisional # 0
     /\ ~agg_call.raised /\ JustIngestedVisible) =>
        LET today == {i \in 1..MaxOrderId :
                        /\ persisted[i] # NoRow
                        /\ persisted[i].user_id = agg_call.user_id
                        /\ persisted[i].nm_id = agg_call.nm_id
                        /\ ~persisted[i].is_cancel
                        /\ persisted[i].date.day = agg_call.date.day
                        /\ persisted[i].date.tick <= agg_call.date.tick}
            total == SumDiscounted({[id |-> i, row |-> persisted[i]] : i \in today})
        IN  /\ agg_call.result.shape = "strings"
            /\ Nearest(agg_call.result.items[1].amount, total)

(***************************************************************************)
(* Stock report: WBRepository.stock_stats, a read of table StocksWB in a   *)
(* unit of work that may hold writes of its own.                           *)
(***************************************************************************)
\* the stock rows a unit of work writes before it reads
MaxStaged == 1
\* the calls of stock_stats in a run
MaxReportCalls == 2

\* The rows of the reported user 1 and item 10, per warehouse none or one
\* (the conflict target of add_stocks_bulk), and none or one row of another
\* user or of another item.  No quantity is NULL.
ReportTables ==
    LET slot(w) == {{}} \cup
            {{[user_id |-> 1, warehouse_name |-> w, nm_id |-> 10,
               quantity |-> q, last_change_date |-> d]} :
                q \in {0, 3, 8}, d \in {1, 2}}
        other == {{},
                  {[user_id |-> 2, warehouse_name |-> "A", nm_id |-> 10,
                    quantity |-> 8, last_change_date |-> 2]},
                  {[user_id |-> 1, warehouse_name |-> "A", nm_id |-> 20,
                    quantity |-> 8, last_change_date |-> 2]}}
    IN  {a \cup b \cup o : a \in slot("A"), b \in slot("B"), o \in other}

\* the rows a unit of work stages: a later state of warehouse "A"
StagedInputs ==
    {[user_id |-> 1, warehouse_name |-> "A", nm_id |-> 10,
      quantity |-> q, last_change_date |-> 3] : q \in {0, 5}}

Absent == [kind |-> "absent"]
\* the zero-remainder message f".. {nm_id}: 0"
ZeroRemainder(nm_id) == [kind |-> "zero", nm_id |-> nm_id]
\* the date of the update, a line per warehouse, the grand total
Report(date, lines, total) ==
    [kind |-> "report", date |-> date, lines |-> lines, total |-> total]

NoReportCall ==
    [no |-> 0, user_id |-> 0, nm_id |-> 0, raised |-> FALSE,
     result |-> [kind |-> "none"], discarded |-> {}]

IdleReport ==
    /\ st_sess = [pending |-> {}, staged |-> 0, rollbacks |-> 0]
    /\ st_call = NoReportCall

InitIdleReport ==
    /\ st_rows = {}
    /\ IdleReport

InitReport ==
    /\ st_rows \in ReportTables
    /\ IdleReport

\* what the session reads: the committed rows under its own writes
StockView ==
    {x \in st_rows : \A y \in st_sess.pending : StockKey(y) # StockKey(x)}
        \cup st_sess.pending

RECURSIVE SumQuantity(_)
SumQuantity(rows) ==
    IF rows = {} THEN 0
    ELSE LET x == CHOOSE x \in rows : TRUE
         IN  x.quantity + SumQuantity(rows \ {x})

\* select warehouse_name, sum(quantity), last_change_date
\* where user_id, nm_id, quantity is not NULL
\* group by warehouse_name, last_change_date having sum(quantity) > 0
stock_data(view, user_id, nm_id) ==
    LET rows == {x \in view : x.user_id = user_id /\ x.nm_id = nm_id}
        groups == {<<x.warehouse_name, x.last_change_date>> : x \in rows}
        total_quantity(g) ==
            SumQuantity({x \in rows : x.warehouse_name = g[1]
                                      /\ x.last_change_date = g[2]})
    IN  {[warehouse |-> g[1], quantity |-> total_quantity(g),
          change_date |-> g[2]] : g \in {h \in groups : total_quantity(h) > 0}}

\* max(data_list, key=lambda x: x[1]) per warehouse
latest_entry(data, warehouse) ==
    CHOOSE x \in data :
        /\ x.warehouse = warehouse
        /\ \A y \in data : y.warehouse = warehouse =>
                               y.change_date <= x.change_date

RECURSIVE SumValues(_, _)
SumValues(f, keys) ==
    IF keys = {} THEN 0
    ELSE LET k == CHOOSE k \in keys : TRUE
         IN  f[k] + SumValues(f, keys \ {k})

Max(S) == CHOOSE x \in S : \A y \in S : y <= x

\* the body of stock_stats after the query
stock_stats_result(view, user_id, nm_id) ==
    LET data == stock_data(view, user_id, nm_id)
        warehouses == {x.warehouse : x \in data}
        warehouse_totals == [w \in warehouses |-> latest_entry(data, w).quantity]
        latest_dates == [w \in warehouses |-> latest_entry(data, w).change_date]
        total_quantity == SumValues(warehouse_totals, warehouses)
    IN  IF data = {} THEN ZeroRemainder(nm_id)
        ELSE IF total_quantity = 0 THEN ZeroRemainder(nm_id)
        ELSE Report(Max({latest_dates[w] : w \in warehouses}),
                    warehouse_totals, total_quantity)

\* A plausible bug: the error is logged and the transaction is left open.
on_storage_error_no_rollback(ss) == ss

\* except SQLAlchemyError: await self.session.rollback()
on_storage_error(ss) ==
    [ss EXCEPT !.pending = {}, !.rollbacks = @ + 1]

\* WBRepository.stock_stats(user_id, nm_id)
stock_stats(user_id, nm_id, raises) ==
    /\ st_call.no < MaxReportCalls
    /\ st_call' = [no |-> st_call.no + 1, user_id |-> user_id,
                   nm_id |-> nm_id, raised |-> raises,
                   result |-> IF raises THEN Absent
                              ELSE stock_stats_result(StockView, user_id, nm_id),
                   discarded |-> IF raises THEN st_sess.pending ELSE {}]
    /\ st_sess' = IF raises THEN on_storage_error(st_sess) ELSE st_sess
    /\ UNCHANGED st_rows

\* A write of the unit of work before the report: add_stocks_bulk([r]),
\* not committed yet.
stage_stock(r) ==
    /\ st_sess.staged < MaxStaged
    /\ st_sess' = [st_sess EXCEPT !.pending = upsert_stock(@, r),
                                  !.staged = @ + 1]
    /\ UNCHANGED <<st_rows, st_call>>

\* The unit of work commits what it wrote.
report_uow_commit ==
    /\ st_sess.pending # {}
    /\ st_rows' = StockView
    /\ st_sess' = [st_sess EXCEPT !.pending = {}]
    /\ UNCHANGED st_call

NextReport ==
    /\ \/ \E raises \in BOOLEAN : stock_stats(1, 10, raises)
       \/ \E r \in StagedInputs : stage_stock(r)
       \/ report_uow_commit
    /\ UNCHANGED <<ord_vars, cred_vars, stock_vars, sale_vars, cascade_vars,
                   agg_vars, chunk_vars, dec_vars,
                   task_vars>>

\* the rows of the user and item the last call could read: the commits and
\* the stages since then do not change what it returned
ReportedRows(view, c) ==
    {x \in view : x.user_id = c.user_id /\ x.nm_id = c.nm_id}

\* The report the rows call for: per warehouse the quantity of its row of
\* the greatest last_change_date, their sum, the greatest date of all.
ExpectedReport(rows, nm_id) ==
    LET warehouses == {x.warehouse_name : x \in rows}
        latest(w) == CHOOSE x \in rows :
                        /\ x.warehouse_name = w
                        /\ \A y \in rows : y.warehouse_name = w =>
                               y.last_change_date <= x.last_change_date
        quantities == [w \in warehouses |-> latest(w).quantity]
        total == SumValues(quantities, warehouses)
    IN  IF total = 0 THEN ZeroRemainder(nm_id)
        ELSE Report(Max({latest(w).last_change_date : w \in warehouses}),
                    quantities, total)

\* C18: a call of stock_stats that read the table reports, for the rows of
\* the user and item, rows of quantity 0 included, per warehouse the
\* quantity of the row of the greatest last_change_date, the sum of these
\* quantities and the greatest last_change_date of all warehouses, and the
\* zero-remainder message when the sum is 0.
C18_StockReport ==
    [][(st_call'.no # st_call.no /\ ~st_call'.raised) =>
          st_call'.result = ExpectedReport(ReportedRows(StockView, st_call'),
                                           st_call'.nm_id)]_vars

\* Without a row of quantity 0 the report is the expected one.
C18_ReportWithoutZeroRows ==
    [][(/\ st_call'.no # st_call.no /\ ~st_call'.raised
        /\ \A x \in ReportedRows(StockView, st_call') : x.quantity > 0) =>
          st_call'.result = ExpectedReport(ReportedRows(StockView, st_call'),
                                           st_call'.nm_id)]_vars

\* C19: a call of stock_stats whose query fails with a storage error
\* returns absent and rolls back the transaction of the unit of work, whose
\* writes are gone; a call that read the table returns a message, rolls
\* nothing back and leaves the writes of the unit of work in place; neither
\* changes a committed row.
C19_ErrorRollsBack ==
    [][st_call'.no # st_call.no =>
          /\ st_rows' = st_rows
          /\ IF st_call'.raised
             THEN /\ st_call'.result = Absent
                  /\ st_sess'.rollbacks = st_sess.rollbacks + 1
                  /\ st_sess'.pending = {}
             ELSE /\ st_call'.result.kind \in {"report", "zero"}
                  /\ st_sess' = st_sess]_vars

\* A failed call discarded a write of the unit of work.
C19_Witness ==
    /\ st_call.raised
    /\ st_call.result = Absent
    /\ st_call.discarded # {}
    /\ st_sess.rollbacks = 1

(***************************************************************************)
(* Chunking: the statements one call of add_stocks_bulk issues for an      *)
(* input of up to MaxRecords records.                                      *)
(***************************************************************************)
MaxRecords == 1200

\* The input lists: n records, told apart by last_change_date, of n items,
\* or with record twin + 1 of the item of record twin (twin = 0: no twin).
Twins == {0, 1, CHUNK_SIZE, CHUNK_SIZE + 1}

StockList(n, twin) ==
    [i \in 1..n |->
        [user_id |-> 1, warehouse_name |-> "A",
         nm_id |-> IF twin # 0 /\ i = twin + 1 THEN twin ELSE i,
         quantity |-> 5, last_change_date |-> i]]

NoChunkCall == [n |-> 0, twin |-> 0, called |-> FALSE, statements |-> <<>>,
                raised |-> FALSE]

IdleChunks == chunk_call = NoChunkCall

InitChunks ==
    \E n \in 0..MaxRecords, twin \in Twins :
        /\ twin < n \/ twin = 0
        /\ chunk_call = [NoChunkCall EXCEPT !.n = n, !.twin = twin]

\* for chunk in chunked_list(stocks, CHUNK_SIZE): .. execute(stmt): the
\* statements issued, the last of them rejected when raised
RECURSIVE issued_statements(_)
issued_statements(chunks) ==
    IF chunks = <<>> THEN [statements |-> <<>>, raised |-> FALSE]
    ELSE IF has_duplicate_key(Head(chunks))
         THEN [statements |-> <<Head(chunks)>>, raised |-> TRUE]
         ELSE LET rest == issued_statements(Tail(chunks))
              IN  [statements |-> <<Head(chunks)>> \o rest.statements,
                   raised |-> rest.raised]

\* WBRepository.add_stocks_bulk(stocks), the statements it executes
add_stocks_bulk_statements ==
    /\ ~chunk_call.called
    /\ LET stocks_in == StockList(chunk_call.n, chunk_call.twin)
           res == IF stocks_in = <<>>
                  THEN [statements |-> <<>>, raised |-> FALSE]
                  ELSE issued_statements(chunked_list(stocks_in, CHUNK_SIZE))
       IN  chunk_call' = [chunk_call EXCEPT !.called = TRUE,
                              !.statements = res.statements,
                              !.raised = res.raised]

NextChunks ==
    /\ add_stocks_bulk_statements
    /\ UNCHANGED <<ord_vars, cred_vars, stock_vars, sale_vars, cascade_vars,
                   agg_vars, report_vars, dec_vars,
                   task_vars>>

RECURSIVE Concat(_)
Concat(seqs) ==
    IF seqs = <<>> THEN <<>> ELSE Head(seqs) \o Concat(Tail(seqs))

\* ceil(n / 500) statements, in input order, every record in one of them,
\* none of more than 500 records and all but the last of 500
SplitInChunks(statements, stocks_in) ==
    LET n == Len(stocks_in)
        k == Len(statements)
    IN  /\ k = (n + CHUNK_SIZE - 1) \div CHUNK_SIZE
        /\ Concat(statements) = stocks_in
        /\ \A i \in 1..k : Len(statements[i]) <= CHUNK_SIZE
        /\ \A i \in 1..(k - 1) : Len(statements[i]) = CHUNK_SIZE

\* C20: a call of add_stocks_bulk with n records issues ceil(n / 500)
\* upsert statements in input order, each of at most 500 records and all
\* but the last of 500, every record in exactly one of them; with no record
\* it issues no statement.
C20_ChunksCoverInput ==
    chunk_call.called =>
        SplitInChunks(chunk_call.statements,
                      StockList(chunk_call.n, chunk_call.twin))

\* Unless a statement is rejected the input is split as stated.
C20_ChunksWithoutRejection ==
    (chunk_call.called /\ ~chunk_call.raised) =>
        SplitInChunks(chunk_call.statements,
                      StockList(chunk_call.n, chunk_call.twin))

\* 1200 records go in statements of 500, 500 and 200.
C20_Example ==
    /\ chunk_call.called /\ chunk_call.n = 1200 /\ ~chunk_call.raised
    /\ Len(chunk_call.statements) = 3
    /\ Len(chunk_call.statements[1]) = 500
    /\ Len(chunk_call.statements[2]) = 500
    /\ Len(chunk_call.statements[3]) = 200

\* The credential that the gate call of unit of work s wrote, as its
\* session sees it: the rows of its (user_id, title).
Written(c, ss, table) ==
    {x \in DbView(ss, table) : x.user_id = c.user /\ x.title = c.title}

\* The user of gate call c has an active subscription, or the trial that
\* the call granted.
Qualifies(c, ledger) ==
    \/ ledger[c.user].active
    \/ c.status = "trial_activated" /\ ledger[c.user].trial_used

\* Before its set_key a gate call has written nothing, and in the trial
\* branch the trial is granted when the call comes to set_key.
GateWritesLast ==
    \A s \in UoWs :
        LET c == call[s] IN
        (c.op = "gate" /\ c.user # NoUser) =>
            /\ c.pc \in {"has_active", "check_trial", "create_subscription",
                          "set_key"} =>
                   \A x \in DbView(sess[s], api_keys) :
                       x.key_encrypted.iv # c.no
            /\ (c.pc = "set_key" /\ c.status = "trial_activated") =>
                   subs[c.user].trial_used

\* The step that writes the credential of a gate call: the flag written is
\* the one of the branch taken, and an active credential is written for a
\* user who qualifies.
GateWriteStep ==
    \A s \in UoWs :
        (/\ call[s].op = "gate" /\ call[s].pc = "set_key"
         /\ call'[s].pc = "done") =>
            LET c == call'[s]
                written == Written(c, sess'[s], api_keys')
            IN  /\ written # {}
                /\ \A x \in written :
                       /\ x.is_active =
                              (c.status \in {"active", "trial_activated"})
                       /\ x.is_active => Qualifies(c, subs')

\* C23: the activation decision and the credential write of
\* set_api_key_with_subscription_check are one unit: the call writes
\* nothing before its set_key, in the trial branch the trial is granted
\* before the credential is written, the credential is written active
\* exactly when the result is ACTIVE or TRIAL_ACTIVATED, and when it is
\* written active the user has an active subscription or the trial just
\* granted, also when another unit of work runs a call for the same user
\* in between.
C23_DecisionAndWriteAreOneUnit ==
    []GateWritesLast /\ [][GateWriteStep]_vars

\* What does hold of the write of a gate call: the flag written is the one
\* of the branch taken, and the branch was right when it was taken: the
\* call saw an active subscription at its check, or granted the trial.
GateWriteFollowsDecision ==
    \A s \in UoWs :
        (/\ call[s].op = "gate" /\ call[s].pc = "set_key"
         /\ call'[s].pc = "done") =>
            LET c == call'[s]
                written == Written(c, sess'[s], api_keys')
            IN  /\ written # {}
                /\ \A x \in written :
                       /\ x.is_active =
                              (c.status \in {"active", "trial_activated"})
                       /\ x.is_active =>
                              c.seen_active \/ Qualifies(c, subs')

C23_WriteFollowsDecision ==
    []GateWritesLast /\ [][GateWriteFollowsDecision]_vars

\* C27: of two set_api_key_with_subscription_check calls of different
\* units of work that both begin for the same user while the user has no
\* active subscription and has not used the trial, at most one creates a
\* trial subscription and has the result TRIAL_ACTIVATED, whatever the
\* interleaving.
C27_OneTrialUnderRace ==
    \A s, t \in UoWs :
        (/\ s # t
         /\ call[s].op = "gate" /\ call[t].op = "gate"
         /\ call[s].user # NoUser /\ call[s].user = call[t].user
         /\ call[s].at_start = [active |-> FALSE, trial_used |-> FALSE]
         /\ call[t].at_start = [active |-> FALSE, trial_used |-> FALSE]) =>
            ~(/\ call[s].status = "trial_activated"
              /\ call[t].status = "trial_activated")

(***************************************************************************)
(* Decryption: ApiKeyService.decrypt_key and get_decrypted_by_title on a   *)
(* stored ciphertext.  A ciphertext is a Fernet token: it was made under a *)
(* key, and it is intact or was changed since.                             *)
(***************************************************************************)
\* the key of the service, and the key of another installation
FernetKeys == {"own", "foreign"}

StoredCiphertexts ==
    [made_by : FernetKeys,
     token : {fernet_encrypt(raw, iv) : raw \in RawKeys \cup {"k2"}, iv \in {1}},
     intact : BOOLEAN]

\* self.fernet.decrypt(token): the plaintext of an intact token made under
\* the same key, InvalidToken for every other one (the HMAC does not match)
fernet_decrypt(key, c) ==
    IF c.made_by = key /\ c.intact
    THEN [raised |-> "", value |-> <<c.token.plain>>]
    ELSE [raised |-> "InvalidToken", value |-> <<>>]

\* A plausible bug: InvalidToken is logged and the bytes are returned.
decrypt_key_swallows(key, c) ==
    LET res == fernet_decrypt(key, c) IN
    IF res.raised = "InvalidToken"
    THEN [raised |-> "", value |-> <<c.token.plain>>]
    ELSE res

\* try: return self.fernet.decrypt(..).decode()
\* except InvalidToken: raise ApiKeyDecryptionError(..)
decrypt_key(key, c) ==
    LET res == fernet_decrypt(key, c) IN
    IF res.raised = "InvalidToken"
    THEN [raised |-> "ApiKeyDecryptionError", value |-> <<>>]
    ELSE res

\* The stored credentials of user "u1": per title none, or a row.
DecStores ==
    [Titles -> {<<>>} \cup
               {<<[key_encrypted |-> c, is_active |-> a]>> :
                    c \in StoredCiphertexts, a \in BOOLEAN}]

NoDecCall == [op |-> "none", tg |-> "", title |-> "",
              raised |-> "", value |-> <<>>]

IdleDec == dec = [store |-> [t \in Titles |-> <<>>], call |-> NoDecCall]

InitDec ==
    \E store \in DecStores : dec = [store |-> store, call |-> NoDecCall]

\* get_by_title(user_id, title): the active row of the title, or None
get_by_title(store, title) ==
    IF store[title] # <<>> /\ store[title][1].is_active
    THEN store[title] ELSE <<>>

\* ApiKeyService.get_decrypted_by_title(telegram_id, title): None is <<>>
get_decrypted_by_title_result(store, tg, title) ==
    IF get_by_tg_id(tg) = NoUser
    THEN [raised |-> "ValueError", value |-> <<>>]
    ELSE LET key == get_by_title(store, title) IN
         IF key = <<>> THEN [raised |-> "", value |-> <<>>]
         ELSE decrypt_key("own", key[1].key_encrypted)

get_decrypted_by_title(tg, title) ==
    LET res == get_decrypted_by_title_result(dec.store, tg, title) IN
    dec' = [dec EXCEPT !.call =
               [op |-> "get_decrypted_by_title", tg |-> tg, title |-> title,
                raised |-> res.raised, value |-> res.value]]

NextDec ==
    /\ \E tg \in TelegramIds, title \in Titles :
           get_decrypted_by_title(tg, title)
    /\ UNCHANGED <<ord_vars, cred_vars, stock_vars, sale_vars, cascade_vars,
                   read_vars, task_vars>>

\* the active row the last call found, if any
DecFound ==
    IF dec.call.op = "get_decrypted_by_title"
       /\ get_by_tg_id(dec.call.tg) # NoUser
    THEN get_by_title(dec.store, dec.call.title)
    ELSE <<>>

\* C21: get_decrypted_by_title on a ciphertext that was changed or that was
\* not made under the key of the service ends with ApiKeyDecryptionError
\* raised to its caller and returns no plaintext; on an intact ciphertext
\* of the service it returns the plaintext.
C21_DecryptFailsClosed ==
    DecFound # <<>> =>
        LET c == DecFound[1].key_encrypted IN
        IF c.intact /\ c.made_by = "own"
        THEN dec.call.raised = "" /\ dec.call.value = <<c.token.plain>>
        ELSE dec.call.raised = "ApiKeyDecryptionError" /\ dec.call.value = <<>>

\* The call met a ciphertext of the service that was changed.
C21_Witness ==
    /\ DecFound # <<>>
    /\ DecFound[1].key_encrypted.made_by = "own"
    /\ ~DecFound[1].key_encrypted.intact
    /\ dec.call.raised = "ApiKeyDecryptionError"

\* The call met an intact ciphertext made under another key.
C21_WitnessForeign ==
    /\ DecFound # <<>>
    /\ DecFound[1].key_encrypted.made_by = "foreign"
    /\ DecFound[1].key_encrypted.intact
    /\ dec.call.raised = "ApiKeyDecryptionError"

(***************************************************************************)
(* The scheduled run: handler `task`, which reads every active credential  *)
(* of an active user and runs fetch_and_save_orders_for_key for each, and  *)
(* ApiKeyService.handle_unauthorized_key, which takes a credential out of  *)
(* the runs.                                                               *)
(***************************************************************************)
\* the runs of the task handler
MaxRuns == 2

NoRun == [no |-> 0, status |-> "idle", keys |-> <<>>, cycles |-> <<>>,
          revoked |-> {}, owners |-> {}]

IdleTask ==
    /\ run = NoRun
    /\ user_active = KeyOwners
    /\ revoked = {}

InitTask ==
    /\ run = NoRun
    /\ user_active \in SUBSET KeyOwners
    /\ revoked = {}

\* the lists that hold every row of a set once, in any order
RECURSIVE ListsOf(_)
ListsOf(rows) ==
    IF rows = {} THEN {<<>>}
    ELSE UNION {{<<x>> \o l : l \in ListsOf(rows \ {x})} : x \in rows}

\* A plausible bug: the test of ApiKey.is_active is left out.
active_keys_where_any_flag(table, owners) ==
    {x \in table : x.user_id \in owners}

\* select(ApiKey).join(User).where(ApiKey.is_active == True,
\*                                 User.is_active == True)
active_keys_where(table, owners) ==
    {x \in table : x.is_active /\ x.user_id \in owners}

\* WbApiKeyRepository.get_all_active_keys() in a new session: the rows in
\* the order the database returns them, or [] when the query raised
get_all_active_keys(table, owners, raises) ==
    IF raises THEN {<<>>}
    ELSE ListsOf(active_keys_where(table, owners))

\* task, up to the loop: api_keys = await service.get_all_decrypted_keys().
\* Without a key the loop body never runs and the print(key..) after the
\* loop raises UnboundLocalError.
task_begin(raises) ==
    /\ run.status \in {"idle", "finished", "raised"}
    /\ run.no < MaxRuns
    /\ \E keys \in get_all_active_keys(api_keys, user_active, raises) :
           run' = [no |-> run.no + 1,
                   status |-> IF keys = <<>> THEN "raised" ELSE "running",
                   keys |-> keys, cycles |-> <<>>,
                   revoked |-> IF raises THEN {} ELSE revoked,
                   owners |-> user_active]
    /\ UNCHANGED <<user_active, revoked>>

\* What a cycle of one key does: "ok" (the new orders are persisted and
\* notified), or fetch_and_save_orders raises, or send_message raises and
\* the unit of work of the cycle is rolled back.
CycleOutcomes == {"ok", "fetch raises", "notify raises"}

\* for key in api_keys: await fetch_and_save_orders_for_key(..): an
\* exception of the cycle leaves the loop and the handler
after_cycle(r, outcome) ==
    LET cycles == Append(r.cycles, outcome) IN
    [r EXCEPT !.cycles = cycles,
              !.status = IF outcome # "ok" THEN "raised"
                         ELSE IF Len(cycles) = Len(r.keys)
                         THEN "finished" ELSE "running"]

fetch_and_save_orders_for_key(outcome) ==
    /\ run.status = "running"
    /\ run' = after_cycle(run, outcome)
    /\ UNCHANGED <<user_active, revoked>>

\* ApiKeyService.handle_unauthorized_key(user_id) in the session of s; the
\* value returned is in status: "True", or "None" when the function ends
\* without a return statement
handle_unauthorized_key(s, u, raises) ==
    /\ CallIdle(s)
    /\ cred_hist.calls < MaxCredCalls
    /\ LET view == DbView(sess[s], api_keys)
           keys == select_active(view, u)
       IN  IF sess[s].failed \/ raises
           THEN \* deactivate_key_by_user_id: raise e; here: log, raise
                /\ sess' = [sess EXCEPT ![s].open = TRUE, ![s].failed = TRUE]
                /\ call' = [call EXCEPT ![s] =
                       [NoCall EXCEPT !.op = "handle_unauthorized_key",
                                      !.pc = "raised", !.user = u,
                                      !.before = view]]
           ELSE /\ sess' = [sess EXCEPT ![s] =
                       deactivate_all([@ EXCEPT !.open = TRUE], keys)]
                /\ call' = [call EXCEPT ![s] =
                       [NoCall EXCEPT !.op = "handle_unauthorized_key",
                                      !.pc = "done", !.user = u,
                                      !.before = view,
                                      !.ret = (keys # {}),
                                      !.status = IF keys # {} THEN "True"
                                                 ELSE "None"]]
    /\ cred_hist' = [cred_hist EXCEPT !.calls = @ + 1]
    /\ UNCHANGED <<api_keys, key_id, subs>>

\* The users whose credentials a commit of session s takes out of the runs
\* (s ended with a deactivation that saw the latest commits), and those for
\* whom it saves an active credential.
RevokedBy(s) ==
    {u \in KeyOwners :
        /\ call[s].op = "handle_unauthorized_key" /\ call[s].pc = "done"
        /\ call[s].user = u
        /\ sess[s].alone}

SavedActiveBy(s) ==
    {p.user_id : p \in {q \in sess[s].ups : q.is_active}}

task_uow_exit(s) ==
    /\ cred_uow_exit(s)
    /\ revoked' = IF commit_ok(s)
                  THEN (revoked \cup RevokedBy(s)) \ SavedActiveBy(s)
                  ELSE revoked
    /\ UNCHANGED <<run, user_active>>

NextTask ==
    /\ \/ \E s \in UoWs :
              \/ \E u \in KeyOwners, title \in OneTitle, raw \in RawKeys,
                    act \in BOOLEAN :
                     set_key(s, u, title, raw, act) /\ UNCHANGED task_vars
              \/ \E u \in KeyOwners, raises \in BOOLEAN :
                     handle_unauthorized_key(s, u, raises)
                         /\ UNCHANGED task_vars
              \/ task_uow_exit(s)
       \/ \E raises \in BOOLEAN :
              task_begin(raises) /\ UNCHANGED cred_vars
       \/ \E outcome \in CycleOutcomes :
              fetch_and_save_orders_for_key(outcome) /\ UNCHANGED cred_vars
    /\ UNCHANGED <<ord_vars, stock_vars, sale_vars, cascade_vars, read_vars,
                   dec_vars>>

\* C22: in a run of the task handler over the active credentials, the
\* failure of the cycle of one credential leaves the cycles of the others
\* as they are: when the run is over, every credential it read for which
\* no failure is on record had its cycle run, orders persisted and
\* notified.
C22_FailureIsolated ==
    run.status \in {"finished", "raised"} =>
        \A i \in 1..Len(run.keys) :
            (i > Len(run.cycles) \/ run.cycles[i] = "ok") =>
                (i <= Len(run.cycles) /\ run.cycles[i] = "ok")

\* Without a failure every credential of the run has its cycle.
C22_RunWithoutFailure ==
    (/\ run.status \in {"finished", "raised"} /\ run.keys # <<>>
     /\ \A i \in 1..Len(run.cycles) : run.cycles[i] = "ok") =>
        /\ run.status = "finished"
        /\ Len(run.cycles) = Len(run.keys)

\* C24: a run that reads the credentials after a deactivation of the
\* credentials of user u was committed, and before a later save of an
\* active credential of u is committed, selects no credential of u; and no
\* run selects a credential of a user who is not active.
C24_RevokedKeysNotFetched ==
    \A i \in 1..Len(run.keys) :
        /\ run.keys[i].user_id \notin run.revoked
        /\ run.keys[i].user_id \in run.owners
        /\ run.keys[i].is_active

\* A run read the credentials while those of user u1 were revoked and
\* selected the credential of the other user.
C24_Witness ==
    /\ "u1" \in run.revoked
    /\ run.status # "idle"
    /\ \E i \in 1..Len(run.keys) : run.keys[i].user_id = "u2"

\* A run after a later save: the credential of u1 was revoked, saved active
\* again, and is selected.
C24_WitnessSavedAgain ==
    /\ cred_hist.calls = MaxCredCalls
    /\ run.revoked = {}
    /\ \E i \in 1..Len(run.keys) :
           run.keys[i].user_id = "u1" /\ run.keys[i].key_encrypted.iv = 3

\* C25: handle_unauthorized_key returns True when it deactivated a
\* credential of the user, False when the user had no active credential,
\* and raises again after a storage error.
C25_HandleUnauthorizedResult ==
    \A s \in UoWs :
        LET c == call[s] IN
        c.op = "handle_unauthorized_key" =>
            IF c.pc = "raised" THEN c.status = ""
            ELSE c.status = IF \E x \in c.before :
                                   x.user_id = c.user /\ x.is_active
                            THEN "True" ELSE "False"

\* What holds: True exactly after a deactivation, no value after an error.
C25_TrueIffDeactivated ==
    \A s \in UoWs :
        LET c == call[s] IN
        c.op = "handle_unauthorized_key" =>
            IF c.pc = "raised" THEN c.status = ""
            ELSE (c.status = "True") =
                     (\E x \in c.before : x.user_id = c.user /\ x.is_active)

(***************************************************************************)
(* Every credential operation together: the upsert, the plain adds         *)
(* (ApiKeyService.add_encrypt_key, WbApiKeyRepository.add_one and          *)
(* add_key), the deactivation and the deletion.                            *)
(***************************************************************************)
\* key_model = ApiKey(**data); self.session.add(key_model): the object is
\* added without a look at the rows there are; is_active takes the default
\* of the column
add_one(ss, id, u, title, enc, act) ==
    [ss EXCEPT !.open = TRUE,
               !.new = @ \cup {[id |-> id, user_id |-> u, title |-> title,
                                key_encrypted |-> enc, is_active |-> act]}]

\* ApiKeyService.add_encrypt_key(telegram_id, raw_key, title)
add_encrypt_key(s, tg, raw, title, act) ==
    /\ CallIdle(s)
    /\ cred_hist.calls < MaxCredCalls
    /\ LET u == get_by_tg_id(tg)
           no == cred_hist.calls + 1
           enc == fernet_encrypt(raw, no)
       IN  IF u = NoUser
           THEN /\ call' = [call EXCEPT ![s] =
                       [NoCall EXCEPT !.op = "add_encrypt_key",
                                      !.pc = "raised"]]
                /\ sess' = [sess EXCEPT ![s].open = TRUE]
                /\ UNCHANGED key_id
           ELSE /\ call' = [call EXCEPT ![s] =
                       [NoCall EXCEPT !.op = "add_encrypt_key", !.pc = "done",
                            !.user = u, !.title = title, !.raw = raw,
                            !.no = no, !.enc = enc, !.is_active = act,
                            !.before = RowsOfKey(DbView(sess[s], api_keys),
                                                 u, title)]]
                /\ sess' = [sess EXCEPT ![s] =
                       add_one(@, key_id, u, title, enc, act)]
                /\ key_id' = key_id + 1
    /\ cred_hist' = [cred_hist EXCEPT !.calls = @ + 1]
    /\ UNCHANGED <<api_keys, subs>>

\* WbApiKeyRepository.add_key(user_id, key, title)
add_key(s, u, raw, title, act) ==
    /\ CallIdle(s)
    /\ cred_hist.calls < MaxCredCalls
    /\ LET no == cred_hist.calls + 1
           enc == fernet_encrypt(raw, no)
       IN  /\ call' = [call EXCEPT ![s] =
                  [NoCall EXCEPT !.op = "add_key", !.pc = "done",
                       !.user = u, !.title = title, !.raw = raw,
                       !.no = no, !.enc = enc, !.is_active = act,
                       !.before = RowsOfKey(DbView(sess[s], api_keys),
                                            u, title)]]
           /\ sess' = [sess EXCEPT ![s] =
                  add_one(@, key_id, u, title, enc, act)]
    /\ key_id' = key_id + 1
    /\ cred_hist' = [cred_hist EXCEPT !.calls = @ + 1]
    /\ UNCHANGED <<api_keys, subs>>

NextRows ==
    /\ \/ \E s \in UoWs :
              \/ \E u \in Users, title \in Titles, raw \in RawKeys,
                    act \in BOOLEAN :
                     \/ set_key(s, u, title, raw, act) /\ UNCHANGED cascade_vars
                     \/ add_key(s, u, raw, title, act) /\ UNCHANGED cascade_vars
              \/ \E tg \in TelegramIds, title \in Titles, raw \in RawKeys,
                    act \in BOOLEAN :
                     add_encrypt_key(s, tg, raw, title, act)
                         /\ UNCHANGED cascade_vars
              \/ \E u \in Users :
                     deactivate_key_by_user_id(s, u) /\ UNCHANGED cascade_vars
              \/ \E tg \in TelegramIds : delete_key_begin(s, tg)
              \/ delete_user_keys(s, FALSE)
              \/ delete_all_employees(s, FALSE)
              \/ delete_all_tasks(s, FALSE)
              \/ cascade_uow_exit(s)
    /\ UNCHANGED <<ord_vars, stock_vars, sale_vars, read_vars, dec_vars,
                   task_vars>>

\* C26: in every state that the credential operations reach (upsert, plain
\* add, deactivation, deletion, in any order and any unit of work) table
\* ApiKey holds at most one row per (user_id, title).
C26_OneRowPerUserTitle ==
    \A x \in api_keys :
        Cardinality({y \in api_keys :
                        y.user_id = x.user_id /\ y.title = x.title}) = 1

\* A plain add put a second object of a (user_id, title) that has a
\* committed row in its session.
C26_Witness ==
    \E s \in UoWs :
        /\ call[s].op \in {"add_encrypt_key", "add_key"}
        /\ call[s].pc = "done"
        /\ \E n \in sess[s].new : \E x \in api_keys :
               n.user_id = x.user_id /\ n.title = x.title

(***************************************************************************)
(* The specifications.  The reads start from any table of a bounded set.  *)
(***************************************************************************)
IdleReads ==
    IdleAgg /\ InitIdleReport /\ IdleChunks

IdleLate ==
    IdleDec /\ IdleTask

InitWrites ==
    InitOrders /\ InitCred /\ InitStocks /\ InitSales /\ InitCascade

Init ==
    InitWrites /\ IdleAgg /\ InitIdleReport /\ IdleChunks /\ IdleLate

InitTotals ==
    InitWrites /\ InitAgg /\ InitIdleReport /\ IdleChunks /\ IdleLate

InitStockReport ==
    InitWrites /\ IdleAgg /\ InitReport /\ IdleChunks /\ IdleLate

InitChunking ==
    InitWrites /\ IdleAgg /\ InitIdleReport /\ InitChunks /\ IdleLate

SpecOrders == Init /\ [][NextOrders]_vars

SpecCred == Init /\ [][NextCred]_vars

SpecGate == Init /\ [][NextGate]_vars

SpecStocks == Init /\ [][NextStocks]_vars

SpecSales == Init /\ [][NextSales]_vars

SpecKeys == Init /\ [][NextKeys]_vars

SpecDelete == Init /\ [][NextDelete]_vars

SpecTotals == InitTotals /\ [][NextAgg]_vars

SpecReport == InitStockReport /\ [][NextReport]_vars

SpecChunks == InitChunking /\ [][NextChunks]_vars

InitDecrypt ==
    InitWrites /\ IdleReads /\ InitDec /\ IdleTask

SpecDecrypt == InitDecrypt /\ [][NextDec]_vars

InitRuns ==
    InitWrites /\ IdleReads /\ IdleDec /\ InitTask

SpecTask == InitRuns /\ [][NextTask]_vars

SpecRows == Init /\ [][NextRows]_vars

====
